---- MODULE Spec2Model ----
(***************************************************************************)
(* A state-machine model of the vg-renderer context (src/src/vg.cpp):      *)
(* the draw/clip command batch assembler, the clip recorder, the state     *)
(* stack, the frame submission loop, command lists and the shape cache.    *)
(*                                                                         *)
(* Conventions.                                                            *)
(*  - The whole Context is one record, ctx.  Every function of vg.cpp that *)
(*    takes a Context* is an operator from a context record to the context *)
(*    record it leaves behind, so that a handler which calls other         *)
(*    handlers (command-list playback) is still a single step.             *)
(*  - Fields named m_* are the fields of the C++ structs.  Fields named    *)
(*    h_* are history variables: they record what was requested, and the   *)
(*    code modelled never reads them.                                      *)
(*  - IDs are 0-based as in the source; At(seq, id) reads element id.      *)
(*  - VG_CHECK is a debug-only assertion.  The model is the build with     *)
(*    assertions compiled out: a failed check has no effect and the code   *)
(*    after it runs.  (A build that stops at the failed assertion is the   *)
(*    stuttering behaviour of this model.)                                 *)
(*  - Floats are fixed point with FP sub-units per unit, so that the       *)
(*    (uint16_t) casts of the scissor rectangle truncate.                  *)
(*  - Path, Stroker and FontSystem live outside vg.cpp; their outputs are  *)
(*    abstracted to small meshes (see strokerConvexFill and friends).      *)
(***************************************************************************)
EXTENDS Integers, Sequences, FiniteSets, TLC

\* ---------------------------------------------------------------- bounds
\* ContextConfig::m_MaxVBVertices (default 65536).
MaxVBVertices == 9
\* ContextConfig::m_MaxStateStackSize (default 32).
MaxStateStackSize == 3
\* ContextConfig::m_MaxGradients / m_MaxImagePatterns (default 64).
MaxGradients == 2
MaxImagePatterns == 2
\* ContextConfig::m_MaxCommandListDepth (default 16).
MaxCommandListDepth == 2
\* ContextConfig::m_MaxCommandLists (default 256).
MaxCommandLists == 1
\* Budget of mesh-producing calls, clip calls, state calls and path calls
\* in one run.
MaxDrawCalls == 3
MaxClipCalls == 2
MaxStateCalls == 1
MaxPathCalls == 1
\* Number of frames a run goes through.
MaxFrames == 1
\* Budget of commands recorded into command lists and of submitCommandList
\* calls in one run.
MaxRecordCalls == 4
MaxSubmitCalls == 2

\* ------------------------------------------------------------- constants
\* Fixed-point sub-units per unit.
FP == 2
\* uint16_t and the model's unsigned word (TLC integers are 32-bit signed,
\* so the 32-bit unsigned wrap-around is modelled on 16 bits).
U16Mod == 65536
WordMod == 65536
UINT16_MAX == U16Mod - 1
\* ~0u, the "no clip region" value of ClipState::m_FirstCmdID.
NoClipCmd == WordMod - 1
\* Image handle of the font atlas (fsGetFontAtlasImage), the texture of
\* every solid-colour mesh.
FontAtlasImage == 0
\* Canvas size passed to begin(), in units.
CanvasWidth == 4
CanvasHeight == 4
\* IndexBuffer first capacity.
IndexInitialCapacity == 32

At(seq, id) == seq[id + 1]
Last(seq) == seq[Len(seq)]
Min(a, b) == IF a < b THEN a ELSE b
Max(a, b) == IF a > b THEN a ELSE b

\* (uint16_t)f for a non-negative fixed-point float f.
ToU16(f) == (f \div FP) % U16Mod
ScissorU16(r) == <<ToU16(r[1]), ToU16(r[2]), ToU16(r[3]), ToU16(r[4])>>

\* Colors (vg.h): a colour is its rgb part and its 8-bit alpha.
Black == [rgb |-> 0, a |-> 255]
Red == [rgb |-> 1, a |-> 255]
Transparent == [rgb |-> 2, a |-> 0]
\* The value of memory that was allocated and never written.
Garbage == [pos |-> <<-1, -1>>, color |-> [rgb |-> -1, a |-> -1]]
GarbageIndex == -1

\* ---------------------------------------------------------------- State
\* transformIdentity(): the matrix is <<a, b, c, d, e, f>>; a..d are plain
\* integers, e and f fixed point.
IdentityMtx == <<1, 0, 0, 1, 0, 0>>
Abs(x) == IF x < 0 THEN -x ELSE x

\* updateState(): avgScale = (sx + sy) / 2 in fixed point, exact for the
\* axis-aligned matrices the model generates; fontScale is avgScale rounded
\* to a tenth, which leaves the whole scales of the model as they are.
AvgScaleOf(mtx) == ((Abs(mtx[1]) + Abs(mtx[3]) + Abs(mtx[2]) + Abs(mtx[4])) * FP) \div 2
updateState(s) ==
  [s EXCEPT !.m_AvgScale = AvgScaleOf(s.m_TransformMtx),
            !.m_FontScale = AvgScaleOf(s.m_TransformMtx)]

getState(c) == At(c.m_StateStack, c.m_StateStackTop)
setState(c, s) == [c EXCEPT !.m_StateStack[c.m_StateStackTop + 1] = s]

\* vgutil::transformPos2D
transformPos2D(p, m) == <<m[1] * p[1] + m[3] * p[2] + m[5], m[2] * p[1] + m[4] * p[2] + m[6]>>
\* vgutil::batchTransformPositions
batchTransformPositions(pts, m) == [i \in 1..Len(pts) |-> transformPos2D(pts[i], m)]
\* vgutil::batchTransformDrawIndices: dst[i] = src[i] + delta (uint16).
batchTransformDrawIndices(idx, delta) == [i \in 1..Len(idx) |-> (idx[i] + delta) % U16Mod]

\* ----------------------------------------------------------- buffers
NewVertexBuffer == [m_Count |-> 0, m_Data |-> [i \in 1..MaxVBVertices |-> Garbage]]

allocVertexBuffer(c) ==
  [c EXCEPT !.m_VertexBuffers = Append(@, NewVertexBuffer)]

NumVertexBuffers(c) == Len(c.m_VertexBuffers)

\* allocIndexBuffer(): the first index buffer whose m_Count is 0, else a
\* new one.  Returns the context and the buffer id.
FreeIndexBuffers(c) == {i \in 1..Len(c.m_IndexBuffers) : c.m_IndexBuffers[i].m_Count = 0}
allocIndexBuffer(c) ==
  IF FreeIndexBuffers(c) # {}
    THEN [c |-> c, ibID |-> (CHOOSE i \in FreeIndexBuffers(c) : \A j \in FreeIndexBuffers(c) : i <= j) - 1]
    ELSE [c |-> [c EXCEPT !.m_IndexBuffers = Append(@, [m_Count |-> 0, m_Capacity |-> 0, m_Indices |-> <<>>])],
          ibID |-> Len(c.m_IndexBuffers)]

\* C11 mutant: the vertices are always reserved in the current buffer.
allocVertices_NoNewBuffer(c, numVertices) ==
  [c |-> [c EXCEPT !.m_VertexBuffers[NumVertexBuffers(c)].m_Count = @ + numVertices],
   vbID |-> NumVertexBuffers(c) - 1,
   firstVertexID |-> Last(c.m_VertexBuffers).m_Count]

\* C12 mutant: an overflow forces a new draw command only.
allocVertices_DrawFlagOnly(c, numVertices) ==
  LET vb == Last(c.m_VertexBuffers)
      c1 == IF vb.m_Count + numVertices > MaxVBVertices
              THEN [allocVertexBuffer(c) EXCEPT !.m_ForceNewDrawCommand = TRUE]
              ELSE c
      vbID == NumVertexBuffers(c1) - 1
  IN [c |-> [c1 EXCEPT !.m_VertexBuffers[vbID + 1].m_Count = @ + numVertices],
      vbID |-> vbID,
      firstVertexID |-> At(c1.m_VertexBuffers, vbID).m_Count]

\* allocVertices(): a new vertex buffer, and both force flags, when the
\* current one cannot hold numVertices more.
allocVertices(c, numVertices) ==
  LET vb == Last(c.m_VertexBuffers)
      c1 == IF vb.m_Count + numVertices > MaxVBVertices
              THEN [allocVertexBuffer(c) EXCEPT !.m_ForceNewDrawCommand = TRUE,
                                                !.m_ForceNewClipCommand = TRUE]
              ELSE c
      vbID == NumVertexBuffers(c1) - 1
  IN [c |-> [c1 EXCEPT !.m_VertexBuffers[vbID + 1].m_Count = @ + numVertices],
      vbID |-> vbID,
      firstVertexID |-> At(c1.m_VertexBuffers, vbID).m_Count]

\* allocIndices(): m_Indices is kept as long as m_Count; slots reserved and
\* not yet written hold GarbageIndex.
allocIndices(c, numIndices) ==
  LET ib == At(c.m_IndexBuffers, c.m_ActiveIndexBufferID)
      nextCapacity == IF ib.m_Capacity # 0 THEN (ib.m_Capacity * 3) \div 2 ELSE IndexInitialCapacity
      cap == IF ib.m_Count + numIndices > ib.m_Capacity
               THEN Max(nextCapacity, ib.m_Count + numIndices)
               ELSE ib.m_Capacity
      need == ib.m_Count + numIndices
  IN [c |-> [c EXCEPT !.m_IndexBuffers[c.m_ActiveIndexBufferID + 1] =
                        [m_Count |-> need, m_Capacity |-> cap,
                         m_Indices |-> IF Len(ib.m_Indices) >= need
                                         THEN ib.m_Indices
                                         ELSE ib.m_Indices \o [i \in 1..(need - Len(ib.m_Indices)) |-> GarbageIndex]]],
      firstIndexID |-> ib.m_Count]

\* ------------------------------------------------------- draw commands
NoClipState == [m_Rule |-> "In", m_FirstCmdID |-> NoClipCmd, m_NumCmds |-> 0]

\* History: one entry per mesh handed to a createDrawCommand_* function
\* or to ctxIndexedTriList.  c0 is the context at the call, r what the
\* allocation returned, c1 the context left behind.  The entry holds what
\* was requested (the mesh, the draw state current at the call, the
\* vertices and indices reserved for it) and where the mesh ended up.
LogMesh(c0, r, c1, stream, type, handle, pos, colors, indices) ==
  LET cmds0 == IF stream = "draw" THEN c0.m_DrawCommands ELSE c0.m_ClipCommands
      cmds1 == IF stream = "draw" THEN c1.m_DrawCommands ELSE c1.m_ClipCommands
      cmd == IF stream = "draw" THEN At(r.c.m_DrawCommands, r.cmd) ELSE At(r.c.m_ClipCommands, r.cmd)
      vbID == NumVertexBuffers(c1) - 1
  IN [c1 EXCEPT !.h_Meshes = Append(@,
        [stream |-> stream,
         cmd |-> r.cmd,
         last |-> Len(cmds1) - 1,
         merged |-> Len(cmds1) = Len(cmds0),
         type |-> type,
         handle |-> handle,
         scissor |-> ScissorU16(getState(c0).m_ScissorRect),
         clip |-> c0.m_ClipState,
         recording |-> c0.m_RecordClipCommands,
         vbID |-> vbID,
         firstVertexID |-> At(c1.m_VertexBuffers, vbID).m_Count - Len(pos),
         firstIndexID |-> At(c1.m_IndexBuffers, c1.m_ActiveIndexBufferID).m_Count - Len(indices),
         vertexAt |-> cmd.m_FirstVertexID + cmd.m_NumVertices,
         indexAt |-> cmd.m_FirstIndexID + cmd.m_NumIndices,
         pos |-> pos,
         colors |-> colors,
         indices |-> indices,
         call |-> c0.h_Calls + 1,
         block |-> c0.h_Block,
         stroker |-> c0.h_Emit,
         culled |-> IF c0.h_Cmd.submit = 0 THEN FALSE ELSE c0.h_Submits[c0.h_Cmd.submit].empty,
         src |-> c0.h_Cmd])]

\* C3 mutant: a merge goes to the first draw command of the frame.
prevCmd_First(c) == 0

\* &ctx->m_DrawCommands[ctx->m_NumDrawCommands - 1], the command a mesh is
\* merged into.
prevCmd(c) == Len(c.m_DrawCommands) - 1

\* allocDrawCommand(): returns the context and the id of the command the
\* mesh goes to.
allocDrawCommand(c, numVertices, numIndices, type, handle) ==
  LET Command(v, x, c1) ==
        IF /\ ~c1.m_ForceNewDrawCommand
           /\ Len(c1.m_DrawCommands) # 0
           /\ Last(c1.m_DrawCommands).m_Type = type
           /\ Last(c1.m_DrawCommands).m_HandleID = handle
          THEN [c |-> c1, cmd |-> prevCmd(c1)]
          ELSE [c |-> [c1 EXCEPT !.m_DrawCommands = Append(@,
                         [m_VertexBufferID |-> v.vbID,
                          m_FirstVertexID |-> v.firstVertexID,
                          m_FirstIndexID |-> x.firstIndexID,
                          m_NumVertices |-> 0,
                          m_NumIndices |-> 0,
                          m_Type |-> type,
                          m_HandleID |-> handle,
                          m_ScissorRect |-> ScissorU16(getState(c1).m_ScissorRect),
                          m_ClipState |-> c1.m_ClipState]),
                       !.m_ForceNewDrawCommand = FALSE],
                cmd |-> Len(c1.m_DrawCommands)]
      Indices(v, x) == Command(v, x, x.c)
      Vertices(v) == Indices(v, allocIndices(v.c, numIndices))
  IN Vertices(allocVertices(c, numVertices))

\* allocClipCommand(): merges whenever the force flag is clear.
allocClipCommand(c, numVertices, numIndices) ==
  LET Command(v, x, c1) ==
        IF ~c1.m_ForceNewClipCommand /\ Len(c1.m_ClipCommands) # 0
          THEN [c |-> c1, cmd |-> Len(c1.m_ClipCommands) - 1]
          ELSE [c |-> [c1 EXCEPT !.m_ClipCommands = Append(@,
                         [m_VertexBufferID |-> v.vbID,
                          m_FirstVertexID |-> v.firstVertexID,
                          m_FirstIndexID |-> x.firstIndexID,
                          m_NumVertices |-> 0,
                          m_NumIndices |-> 0,
                          m_Type |-> "Clip",
                          m_HandleID |-> UINT16_MAX,
                          m_ScissorRect |-> ScissorU16(getState(c1).m_ScissorRect),
                          m_ClipState |-> NoClipState]),
                       !.m_ForceNewClipCommand = FALSE],
                cmd |-> Len(c1.m_ClipCommands)]
      Indices(v, x) == Command(v, x, x.c)
      Vertices(v) == Indices(v, allocIndices(v.c, numIndices))
  IN Vertices(allocVertices(c, numVertices))

\* Overwrite seq[from + 1 .. from + Len(vals)]; a write past the end of the
\* buffer is lost.
WriteAt(seq, from, vals) ==
  [i \in 1..Len(seq) |-> IF i > from /\ i <= from + Len(vals) THEN vals[i - from] ELSE seq[i]]

\* The body shared by the createDrawCommand_* functions once the command is
\* allocated: positions and colours are copied to cmd.first + cmd.num of
\* the command's vertex buffer, the indices, rebased by cmd.num, to
\* cmd.firstIndex + cmd.numIndices of the active index buffer.
WriteMesh(c, stream, cmdID, pos, colors, indices, withColor) ==
  LET cmd == IF stream = "draw" THEN At(c.m_DrawCommands, cmdID) ELSE At(c.m_ClipCommands, cmdID)
      vb == At(c.m_VertexBuffers, cmd.m_VertexBufferID)
      vbOffset == cmd.m_FirstVertexID + cmd.m_NumVertices
      verts == [i \in 1..Len(pos) |->
                  [pos |-> pos[i],
                   color |-> IF withColor
                               THEN (IF Len(colors) = Len(pos) THEN colors[i] ELSE colors[1])
                               ELSE vb.m_Data[Min(vbOffset + i, MaxVBVertices)].color]]
      ib == At(c.m_IndexBuffers, c.m_ActiveIndexBufferID)
      cmd1 == [cmd EXCEPT !.m_NumVertices = @ + Len(pos), !.m_NumIndices = @ + Len(indices)]
      c1 == [c EXCEPT !.m_VertexBuffers[cmd.m_VertexBufferID + 1].m_Data = WriteAt(@, vbOffset, verts),
                      !.m_IndexBuffers[c.m_ActiveIndexBufferID + 1].m_Indices =
                          WriteAt(@, cmd.m_FirstIndexID + cmd.m_NumIndices,
                                  batchTransformDrawIndices(indices, cmd.m_NumVertices % U16Mod))]
  IN IF stream = "draw"
       THEN [c1 EXCEPT !.m_DrawCommands[cmdID + 1] = cmd1]
       ELSE [c1 EXCEPT !.m_ClipCommands[cmdID + 1] = cmd1]

createDrawCommand_VertexColor(c, pos, colors, indices) ==
  LET Fill(r) == LogMesh(c, r, WriteMesh(r.c, "draw", r.cmd, pos, colors, indices, TRUE),
                         "draw", "Textured", FontAtlasImage, pos, colors, indices)
  IN Fill(allocDrawCommand(c, Len(pos), Len(indices), "Textured", FontAtlasImage))

createDrawCommand_ImagePattern(c, handle, pos, colors, indices) ==
  LET Fill(r) == LogMesh(c, r, WriteMesh(r.c, "draw", r.cmd, pos, colors, indices, TRUE),
                         "draw", "ImagePattern", handle, pos, colors, indices)
  IN Fill(allocDrawCommand(c, Len(pos), Len(indices), "ImagePattern", handle))

createDrawCommand_ColorGradient(c, handle, pos, colors, indices) ==
  LET Fill(r) == LogMesh(c, r, WriteMesh(r.c, "draw", r.cmd, pos, colors, indices, TRUE),
                         "draw", "ColorGradient", handle, pos, colors, indices)
  IN Fill(allocDrawCommand(c, Len(pos), Len(indices), "ColorGradient", handle))

\* createDrawCommand_Clip(): positions and indices only.
createDrawCommand_Clip(c, pos, indices) ==
  LET Fill(r) == LogMesh(c, r, WriteMesh(r.c, "clip", r.cmd, pos, <<>>, indices, FALSE),
                         "clip", "Clip", UINT16_MAX, pos, <<>>, indices)
  IN Fill(allocClipCommand(c, Len(pos), Len(indices)))

\* ------------------------------------------------------------- handles
\* GradientHandle / ImagePatternHandle: { idx, flags }.
LocalHandle == 1
InvalidHandle == [idx |-> UINT16_MAX, flags |-> 0]
isValid(h) == h.idx # UINT16_MAX
isLocal(h) == h.flags = LocalHandle

\* --------------------------------------------------- path and stroker
\* The Path component: a flat vertex array and the sub-paths over it.
EmptyPath == [m_Vertices |-> <<>>, m_SubPaths |-> <<>>]

\* pathMoveTo(): a new sub-path of one vertex.
pathMoveTo(path, p) ==
  [m_Vertices |-> Append(path.m_Vertices, p),
   m_SubPaths |-> Append(path.m_SubPaths,
                    [m_FirstVertexID |-> Len(path.m_Vertices), m_NumVertices |-> 1, m_IsClosed |-> FALSE])]

\* pathLineTo(): one more vertex on the last sub-path.
pathLineTo(path, p) ==
  [m_Vertices |-> Append(path.m_Vertices, p),
   m_SubPaths |-> [path.m_SubPaths EXCEPT ![Len(path.m_SubPaths)].m_NumVertices = @ + 1]]

\* pathRect(): a closed sub-path of the four corners.
pathRect(path, x, y, w, h) ==
  [m_Vertices |-> path.m_Vertices \o <<<<x, y>>, <<x, y + h>>, <<x + w, y + h>>, <<x + w, y>>>>,
   m_SubPaths |-> Append(path.m_SubPaths,
                    [m_FirstVertexID |-> Len(path.m_Vertices), m_NumVertices |-> 4, m_IsClosed |-> TRUE])]

\* A triangle fan over n vertices, and the stroker's strip over a polyline
\* of n vertices (the two differ, so a fill and a stroke of one sub-path
\* are different meshes).
RECURSIVE FanIndices(_)
FanIndices(n) == IF n < 3 THEN <<>> ELSE FanIndices(n - 1) \o <<0, n - 2, n - 1>>
RECURSIVE StripIndices(_)
StripIndices(n) == IF n < 2 THEN <<>> ELSE StripIndices(n - 1) \o <<n - 2, n - 1, n - 2>>

\* Colours of an anti-aliased mesh: one per vertex, the last vertex on the
\* transparent fringe.
AAColors(n, col) == [i \in 1..n |-> IF i = n THEN [col EXCEPT !.a = 0] ELSE col]

\* strokerConvexFill / strokerConvexFillAA
strokerConvexFill(vtx) == [pos |-> vtx, colors |-> <<>>, indices |-> FanIndices(Len(vtx))]
strokerConvexFillAA(vtx, col) ==
  [pos |-> vtx, colors |-> AAColors(Len(vtx), col), indices |-> FanIndices(Len(vtx))]
\* strokerPolylineStroke / strokerPolylineStrokeAA(Thin)
strokerPolylineStroke(vtx) == [pos |-> vtx, colors |-> <<>>, indices |-> StripIndices(Len(vtx))]
strokerPolylineStrokeAA(vtx, col) ==
  [pos |-> vtx, colors |-> AAColors(Len(vtx), col), indices |-> StripIndices(Len(vtx))]

\* Fixed-point product and clamp.
FMul(a, b) == (a * b) \div FP
Clamp(x, lo, hi) == IF x < lo THEN lo ELSE IF x > hi THEN hi ELSE x
\* colorSetAlpha(color, (uint8_t)(scale * colorGetAlpha(color)))
ScaleAlpha(color, scale) == [color EXCEPT !.a = ((scale * color.a) \div FP) % 256]

\* ctx->m_FringeWidth = 1 / devicePixelRatio, with devicePixelRatio 1.
FringeWidth == FP
MaxStrokeWidth == 200 * FP

\* allocTransformedVertices() + transformPath(): the buffer is as long as
\* its capacity and keeps what lies beyond the vertices written.
\* h_Transformed remembers what the call that set the flag wrote.
transformPath(c) ==
  IF c.m_PathTransformed
    THEN c
    ELSE LET t == batchTransformPositions(c.m_Path.m_Vertices, getState(c).m_TransformMtx)
             old == c.m_TransformedVertices
         IN [c EXCEPT !.m_TransformedVertices =
                          t \o SubSeq(old, Len(t) + 1, Len(old)),
                      !.m_PathTransformed = TRUE,
                      !.h_Transformed = t]

\* &pathVertices[subPath->m_FirstVertexID << 1], numVertices long.  A read
\* past the end of the buffer yields Garbage positions.
SubPathVertices(c, sp) ==
  [i \in 1..sp.m_NumVertices |->
     IF sp.m_FirstVertexID + i <= Len(c.m_TransformedVertices)
       THEN c.m_TransformedVertices[sp.m_FirstVertexID + i]
       ELSE Garbage.pos]

\* ---------------------------------------------------------- shape cache
\* Build configuration (macros defined outside vg.cpp).
VG_CONFIG_ENABLE_SHAPE_CACHING == TRUE
VG_CONFIG_FORCE_AA_OFF == FALSE

\* A null CommandListCache* on the cache stack.
NullCache == -1
\* allocCommandListCache(): zeroed.
EmptyCache == [m_AvgScale |-> 0, m_Commands |-> <<>>, m_Meshes |-> <<>>]

\* getCommandListCacheStackTop(): the id of the list whose cache is bound,
\* or NullCache.
getCommandListCacheStackTop(c) ==
  IF Len(c.m_CmdListCacheStack) = 0 THEN NullCache ELSE Last(c.m_CmdListCacheStack)

pushCommandListCache(c, cache) == [c EXCEPT !.m_CmdListCacheStack = Append(@, cache)]
popCommandListCache(c) ==
  [c EXCEPT !.m_CmdListCacheStack = SubSeq(@, 1, Len(@) - 1)]

HasCache(c) == VG_CONFIG_ENABLE_SHAPE_CACHING /\ getCommandListCacheStackTop(c) # NullCache

\* vgutil::invertMatrix3 of an axis-aligned matrix, kept as the matrix it
\* inverts so that applying it stays exact in integers.  A matrix scaled
\* to nothing has no inverse: the coordinate is no finite number.
invertMatrix3(m) == [inverseOf |-> m]
InvTransformPos(p, inv) ==
  <<IF inv.inverseOf[1] = 0 THEN Garbage.pos[1]
      ELSE (p[1] - inv.inverseOf[5]) \div inv.inverseOf[1],
    IF inv.inverseOf[4] = 0 THEN Garbage.pos[2]
      ELSE (p[2] - inv.inverseOf[6]) \div inv.inverseOf[4]>>

beginCachedCommand(c) ==
  LET l == getCommandListCacheStackTop(c) + 1
      cache == c.m_CmdLists[l].m_Cache
  IN [c EXCEPT !.m_CmdLists[l].m_Cache.m_Commands = Append(@,
        [m_FirstMeshID |-> Len(cache.m_Meshes) % U16Mod,
         m_NumMeshes |-> 0,
         m_InvTransformMtx |-> invertMatrix3(getState(c).m_TransformMtx),
         h_Src |-> c.h_Cmd])]

endCachedCommand(c) ==
  LET l == getCommandListCacheStackTop(c) + 1
      cache == c.m_CmdLists[l].m_Cache
      n == Len(cache.m_Commands)
  IN [c EXCEPT !.m_CmdLists[l].m_Cache.m_Commands[n].m_NumMeshes =
        (Len(cache.m_Meshes) - cache.m_Commands[n].m_FirstMeshID) % U16Mod]

\* addCachedCommand(): positions are stored in the local space of the
\* command; colours only when there is one per vertex.
addCachedCommand(c, pos, colors, numColors, indices) ==
  LET l == getCommandListCacheStackTop(c) + 1
      cache == c.m_CmdLists[l].m_Cache
      invMtx == Last(cache.m_Commands).m_InvTransformMtx
  IN [c EXCEPT !.m_CmdLists[l].m_Cache.m_Meshes = Append(@,
        [m_Pos |-> [i \in 1..Len(pos) |-> InvTransformPos(pos[i], invMtx)],
         m_Colors |-> IF numColors = 1 THEN <<>> ELSE colors,
         m_Indices |-> indices])]

\* -------------------------------------------------------- fill and stroke
\* The paint of a fill or stroke: what createDrawCommand_* it ends in.
ColorPaint == [kind |-> "Color", handle |-> FontAtlasImage]
GradientPaint(h) == [kind |-> "Gradient", handle |-> h.idx]
ImagePatternPaint(h) == [kind |-> "ImagePattern", handle |-> h.idx]

\* The tail of every sub-path iteration: cache the mesh, then hand it to
\* the clip stream when a clip block is recorded (colour paint only), else
\* to the draw stream.
EmitMesh(c, paint, mesh, col, aa, recordClip) ==
  LET colors == IF aa THEN mesh.colors ELSE <<col>>
      c0 == [c EXCEPT !.h_Tess = @ + 1, !.h_Emit = TRUE]
      c1 == IF HasCache(c0)
              THEN addCachedCommand(c0, mesh.pos, colors, Len(colors), mesh.indices)
              ELSE c0
      Emitted(c2) == [c2 EXCEPT !.h_Emit = FALSE]
  IN Emitted(
       IF paint.kind = "Color"
         THEN IF recordClip
                THEN createDrawCommand_Clip(c1, mesh.pos, mesh.indices)
                ELSE createDrawCommand_VertexColor(c1, mesh.pos, colors, mesh.indices)
         ELSE IF paint.kind = "Gradient"
                THEN createDrawCommand_ColorGradient(c1, paint.handle, mesh.pos, colors, mesh.indices)
                ELSE createDrawCommand_ImagePattern(c1, paint.handle, mesh.pos, colors, mesh.indices))

\* The convex branch: one mesh per sub-path of at least 3 vertices.
RECURSIVE ConvexFillLoop(_, _, _, _, _, _)
ConvexFillLoop(c, i, paint, col, aa, recordClip) ==
  IF i > Len(c.m_Path.m_SubPaths)
    THEN c
    ELSE LET sp == c.m_Path.m_SubPaths[i]
             vtx == SubPathVertices(c, sp)
             mesh == IF aa THEN strokerConvexFillAA(vtx, col) ELSE strokerConvexFill(vtx)
         IN IF sp.m_NumVertices < 3
              THEN ConvexFillLoop(c, i + 1, paint, col, aa, recordClip)
              ELSE ConvexFillLoop(EmitMesh(c, paint, mesh, col, aa, recordClip),
                                  i + 1, paint, col, aa, recordClip)

\* strokerConcaveFillEnd(AA): one mesh over all contours; the
\* decomposition succeeds when there is a contour.
RECURSIVE ConcaveMesh(_, _, _)
ConcaveMesh(c, i, acc) ==
  IF i > Len(c.m_Path.m_SubPaths)
    THEN acc
    ELSE LET vtx == SubPathVertices(c, c.m_Path.m_SubPaths[i])
         IN ConcaveMesh(c, i + 1,
              [pos |-> acc.pos \o vtx,
               indices |-> acc.indices \o batchTransformDrawIndices(FanIndices(Len(vtx)), Len(acc.pos))])
strokerConcaveFillEnd(c, col, aa) ==
  LET m == ConcaveMesh(c, 1, [pos |-> <<>>, indices |-> <<>>])
  IN [pos |-> m.pos, indices |-> m.indices,
      colors |-> IF aa THEN AAColors(Len(m.pos), col) ELSE <<>>]

\* The body shared by ctxFillPathColor, ctxFillPathGradient and
\* ctxFillPathImagePattern after the colour is settled.  The concave branch
\* returns, without endCachedCommand, at a sub-path of fewer than 3
\* vertices.
FillPathBody(c, paint, col, aa, pathType, recordClip) ==
  LET Finish(c3) == IF HasCache(c3) THEN endCachedCommand(c3) ELSE c3
      Tessellate(c2) ==
        IF pathType = "Convex"
          THEN Finish(ConvexFillLoop(c2, 1, paint, col, aa, recordClip))
        ELSE IF \E i \in 1..Len(c2.m_Path.m_SubPaths) : c2.m_Path.m_SubPaths[i].m_NumVertices < 3
          THEN c2
        ELSE IF Len(c2.m_Path.m_SubPaths) > 0
          THEN Finish(EmitMesh(c2, paint, strokerConcaveFillEnd(c2, col, aa), col, aa, recordClip))
          ELSE Finish(c2)
      Cached(c1) == Tessellate(IF HasCache(c1) THEN beginCachedCommand(c1) ELSE c1)
  IN Cached(transformPath(c))

\* flags: [aa, pathType] for fills, [aa, fixedWidth] for strokes.
ctxFillPathColor(c, color, flags) ==
  LET recordClipCommands == c.m_RecordClipCommands
      globalAlpha == IF HasCache(c) THEN FP ELSE getState(c).m_GlobalAlpha
      col == IF recordClipCommands THEN Black ELSE ScaleAlpha(color, globalAlpha)
      aa == IF VG_CONFIG_FORCE_AA_OFF \/ recordClipCommands THEN FALSE ELSE flags.aa
  IN IF ~HasCache(c) /\ col.a = 0
       THEN c
       ELSE FillPathBody(c, ColorPaint, col, aa, flags.pathType, recordClipCommands)

\* ctxFillPathGradient(): the three VG_CHECKs (not recording a clip block,
\* valid handle, not a local handle) guard nothing in this build; the
\* meshes are black and always go to the draw stream.
ctxFillPathGradient(c, gradientHandle, flags) ==
  FillPathBody(c, GradientPaint(gradientHandle), Black,
               ~VG_CONFIG_FORCE_AA_OFF /\ flags.aa, flags.pathType, FALSE)

ctxFillPathImagePattern(c, imgPatternHandle, color, flags) ==
  LET globalAlpha == IF HasCache(c) THEN FP ELSE getState(c).m_GlobalAlpha
      col == ScaleAlpha(color, globalAlpha)
  IN IF ~HasCache(c) /\ col.a = 0
       THEN c
       ELSE FillPathBody(c, ImagePatternPaint(imgPatternHandle), col,
                         ~VG_CONFIG_FORCE_AA_OFF /\ flags.aa, flags.pathType, FALSE)

\* The stroke loop: one mesh per sub-path of at least 2 vertices.
RECURSIVE StrokeLoop(_, _, _, _, _)
StrokeLoop(c, i, col, aa, recordClip) ==
  IF i > Len(c.m_Path.m_SubPaths)
    THEN c
    ELSE LET sp == c.m_Path.m_SubPaths[i]
             vtx == SubPathVertices(c, sp)
             mesh == IF aa THEN strokerPolylineStrokeAA(vtx, col) ELSE strokerPolylineStroke(vtx)
         IN IF sp.m_NumVertices < 2
              THEN StrokeLoop(c, i + 1, col, aa, recordClip)
              ELSE StrokeLoop(EmitMesh(c, ColorPaint, mesh, col, aa, recordClip),
                              i + 1, col, aa, recordClip)

ctxStrokePathColor(c, color, width, flags) ==
  LET recordClipCommands == c.m_RecordClipCommands
      avgScale == getState(c).m_AvgScale
      globalAlpha == IF HasCache(c) THEN FP ELSE getState(c).m_GlobalAlpha
      scaledStrokeWidth == IF flags.fixedWidth THEN width
                           ELSE Clamp(FMul(width, avgScale), 0, MaxStrokeWidth)
      isThin == scaledStrokeWidth <= FringeWidth
      thin == Clamp(scaledStrokeWidth, 0, FringeWidth)
      alphaScale == IF ~isThin THEN globalAlpha ELSE FMul(globalAlpha, FMul(thin, thin))
      col == IF recordClipCommands THEN Black ELSE ScaleAlpha(color, alphaScale)
      aa == IF VG_CONFIG_FORCE_AA_OFF \/ recordClipCommands THEN FALSE ELSE flags.aa
  IN IF ~HasCache(c) /\ col.a = 0
       THEN c
       ELSE LET Finish(c3) == IF HasCache(c3) THEN endCachedCommand(c3) ELSE c3
                Cached(c1) == Finish(StrokeLoop(IF HasCache(c1) THEN beginCachedCommand(c1) ELSE c1,
                                                1, col, aa, recordClipCommands))
            IN Cached(transformPath(c))

\* ------------------------------------------------------------ clipping
ctxBeginClip(c, rule) ==
  [c EXCEPT !.m_ClipState = [m_Rule |-> rule, m_FirstCmdID |-> Len(c.m_ClipCommands), m_NumCmds |-> 0],
            !.m_RecordClipCommands = TRUE,
            !.m_ForceNewClipCommand = TRUE,
            !.h_Block = @ + 1]

\* C6 mutant: endClip leaves m_NumCmds as beginClip set it.
ctxEndClip_KeepsCount(c) ==
  [c EXCEPT !.m_RecordClipCommands = FALSE,
            !.m_ForceNewDrawCommand = TRUE]

\* ctxEndClip(): the unsigned difference wraps when no region was begun.
ctxEndClip(c) ==
  [c EXCEPT !.m_ClipState.m_NumCmds = (Len(c.m_ClipCommands) - c.m_ClipState.m_FirstCmdID) % WordMod,
            !.m_RecordClipCommands = FALSE,
            !.m_ForceNewDrawCommand = TRUE]

ctxResetClip(c) ==
  IF c.m_ClipState.m_FirstCmdID # NoClipCmd
    THEN [c EXCEPT !.m_ClipState.m_FirstCmdID = NoClipCmd,
                   !.m_ClipState.m_NumCmds = 0,
                   !.m_ForceNewDrawCommand = TRUE]
    ELSE c

\* ------------------------------------------------- gradients, patterns
\* ctxCreateLinearGradient(): returns the context and the handle.  The
\* gradient's parameters are kept as the token passed in and the transform
\* they were created under.
\* C19 mutant: the cap is tested with > instead of >=.
ctxCreateLinearGradient_PastCap(c, params) ==
  IF c.m_NextGradientID > MaxGradients
    THEN [c |-> c, handle |-> InvalidHandle]
    ELSE [c |-> [c EXCEPT !.m_NextGradientID = @ + 1,
                          !.m_Gradients = [k \in DOMAIN @ |->
                              IF k = c.m_NextGradientID + 1
                                THEN [params |-> params, mtx |-> getState(c).m_TransformMtx]
                                ELSE @[k]]],
          handle |-> [idx |-> c.m_NextGradientID % U16Mod, flags |-> 0]]

ctxCreateLinearGradient(c, params) ==
  IF c.m_NextGradientID >= MaxGradients
    THEN [c |-> c, handle |-> InvalidHandle]
    ELSE [c |-> [c EXCEPT !.m_NextGradientID = @ + 1,
                          !.m_Gradients[c.m_NextGradientID + 1] =
                              [params |-> params, mtx |-> getState(c).m_TransformMtx]],
          handle |-> [idx |-> c.m_NextGradientID % U16Mod, flags |-> 0]]

ctxCreateImagePattern(c, params, image) ==
  IF image = UINT16_MAX \/ c.m_NextImagePatternID >= MaxImagePatterns
    THEN [c |-> c, handle |-> InvalidHandle]
    ELSE [c |-> [c EXCEPT !.m_NextImagePatternID = @ + 1,
                          !.m_ImagePatterns[c.m_NextImagePatternID + 1] =
                              [params |-> params, mtx |-> getState(c).m_TransformMtx, image |-> image]],
          handle |-> [idx |-> c.m_NextImagePatternID % U16Mod, flags |-> 0]]

\* --------------------------------------------------------- state stack
\* ctxPushState(): the copy lands past the end of the stack when it is
\* full; h_UB records that undefined behaviour.
ctxPushState(c) ==
  IF c.m_StateStackTop + 1 >= MaxStateStackSize
    THEN [c EXCEPT !.m_StateStackTop = @ + 1, !.h_UB = TRUE]
    ELSE [c EXCEPT !.m_StateStack[c.m_StateStackTop + 2] = getState(c),
                   !.m_StateStackTop = @ + 1]

\* C17 mutant: popState carries the current state down to the state it
\* returns to.
ctxPopState_KeepsState(c) ==
  IF c.m_StateStackTop = 0
    THEN [c EXCEPT !.m_StateStackTop = WordMod - 1, !.h_UB = TRUE]
    ELSE [c EXCEPT !.m_StateStack[c.m_StateStackTop] = getState(c),
                   !.m_StateStackTop = @ - 1]

\* ctxPopState(): forces new commands only when a draw command exists and
\* its scissor differs from the restored one.
ctxPopState(c) ==
  IF c.m_StateStackTop = 0
    THEN [c EXCEPT !.m_StateStackTop = WordMod - 1, !.h_UB = TRUE]
    ELSE LET c1 == [c EXCEPT !.m_StateStackTop = @ - 1]
         IN IF /\ Len(c1.m_DrawCommands) # 0
               /\ Last(c1.m_DrawCommands).m_ScissorRect # ScissorU16(getState(c1).m_ScissorRect)
              THEN [c1 EXCEPT !.m_ForceNewDrawCommand = TRUE, !.m_ForceNewClipCommand = TRUE]
              ELSE c1

ForceNewCommands(c) == [c EXCEPT !.m_ForceNewDrawCommand = TRUE, !.m_ForceNewClipCommand = TRUE]

ctxResetScissor(c) ==
  ForceNewCommands(setState(c, [getState(c) EXCEPT
      !.m_ScissorRect = <<0, 0, c.m_CanvasWidth * FP, c.m_CanvasHeight * FP>>]))

\* vgutil::transformVec2D
transformVec2D(v, m) == <<m[1] * v[1] + m[3] * v[2], m[2] * v[1] + m[4] * v[2]>>

ctxSetScissor(c, x, y, w, h) ==
  LET m == getState(c).m_TransformMtx
      pos == transformPos2D(<<x, y>>, m)
      size == transformVec2D(<<w, h>>, m)
      minx == Clamp(pos[1], 0, c.m_CanvasWidth * FP)
      miny == Clamp(pos[2], 0, c.m_CanvasHeight * FP)
      maxx == Clamp(pos[1] + size[1], 0, c.m_CanvasWidth * FP)
      maxy == Clamp(pos[2] + size[2], 0, c.m_CanvasHeight * FP)
  IN ForceNewCommands(setState(c, [getState(c) EXCEPT
       !.m_ScissorRect = <<minx, miny, maxx - minx, maxy - miny>>]))

\* C25 mutant: the rectangle is not cut to the current scissor's far edges.
ctxIntersectScissor_Unclipped(c, x, y, w, h) ==
  LET m == getState(c).m_TransformMtx
      r == getState(c).m_ScissorRect
      pos == transformPos2D(<<x, y>>, m)
      size == transformVec2D(<<w, h>>, m)
      minx == Max(pos[1], r[1])
      miny == Max(pos[2], r[2])
      newRectWidth == Max(0, pos[1] + size[1] - minx)
      newRectHeight == Max(0, pos[2] + size[2] - miny)
  IN [c |-> ForceNewCommands(setState(c, [getState(c) EXCEPT
               !.m_ScissorRect = <<minx, miny, newRectWidth, newRectHeight>>])),
      ret |-> newRectWidth >= FP /\ newRectHeight >= FP]

\* ctxIntersectScissor(): returns the context and whether the rectangle
\* left is at least one unit wide and high.
ctxIntersectScissor(c, x, y, w, h) ==
  LET m == getState(c).m_TransformMtx
      r == getState(c).m_ScissorRect
      pos == transformPos2D(<<x, y>>, m)
      size == transformVec2D(<<w, h>>, m)
      minx == Max(pos[1], r[1])
      miny == Max(pos[2], r[2])
      maxx == Min(pos[1] + size[1], r[1] + r[3])
      maxy == Min(pos[2] + size[2], r[2] + r[4])
      newRectWidth == Max(0, maxx - minx)
      newRectHeight == Max(0, maxy - miny)
  IN [c |-> ForceNewCommands(setState(c, [getState(c) EXCEPT
               !.m_ScissorRect = <<minx, miny, newRectWidth, newRectHeight>>])),
      ret |-> newRectWidth >= FP /\ newRectHeight >= FP]

ctxTransformIdentity(c) ==
  setState(c, updateState([getState(c) EXCEPT !.m_TransformMtx = IdentityMtx]))

ctxTransformScale(c, x, y) ==
  LET m == getState(c).m_TransformMtx
  IN setState(c, updateState([getState(c) EXCEPT
       !.m_TransformMtx = <<x * m[1], x * m[2], y * m[3], y * m[4], m[5], m[6]>>]))

ctxTransformTranslate(c, x, y) ==
  LET m == getState(c).m_TransformMtx
  IN setState(c, updateState([getState(c) EXCEPT
       !.m_TransformMtx = <<m[1], m[2], m[3], m[4],
                            m[5] + m[1] * x + m[3] * y, m[6] + m[2] * x + m[4] * y>>]))

setGlobalAlpha(c, alpha) == setState(c, [getState(c) EXCEPT !.m_GlobalAlpha = alpha])

\* ------------------------------------------------------------- path API
ctxBeginPath(c) ==
  [c EXCEPT !.m_Path = EmptyPath, !.m_PathTransformed = FALSE, !.h_Transformed = <<>>]
ctxMoveTo(c, x, y) == [c EXCEPT !.m_Path = pathMoveTo(@, <<x, y>>)]
ctxLineTo(c, x, y) == [c EXCEPT !.m_Path = pathLineTo(@, <<x, y>>)]
ctxRect(c, x, y, w, h) == [c EXCEPT !.m_Path = pathRect(@, x, y, w, h)]

\* ------------------------------------------------------ indexedTriList
\* ctxIndexedTriList(): never looks at m_RecordClipCommands; the mesh goes
\* to the draw stream with the positions transformed by the state matrix.
ctxIndexedTriList(c, pos, colors, indices, img) ==
  LET image == IF img = UINT16_MAX THEN FontAtlasImage ELSE img
      tpos == batchTransformPositions(pos, getState(c).m_TransformMtx)
      Fill(r) == LogMesh(c, r, WriteMesh(r.c, "draw", r.cmd, tpos, colors, indices, TRUE),
                         "draw", "Textured", image, tpos, colors, indices)
  IN Fill(allocDrawCommand(c, Len(pos), Len(indices), "Textured", image))

\* -------------------------------------------------------- command lists
\* Build configuration (macro defined outside vg.cpp).
VG_CONFIG_COMMAND_LIST_PRESERVE_STATE == FALSE

\* CommandListFlags.
NoFlags == [cacheable |-> FALSE, culling |-> FALSE]
\* A CommandList of zeroed memory.  m_Commands is the command buffer up to
\* m_CommandBufferPos, one record per command; a null m_Cache and a zeroed
\* one are not told apart.  h_Version counts the recordings and resets of
\* the list; h_Fresh says that the list was reset and not submitted since.
ZeroCommandList ==
  [m_Commands |-> <<>>, m_Flags |-> NoFlags, m_NumGradients |-> 0, m_NumImagePatterns |-> 0,
   m_Cache |-> EmptyCache, h_Version |-> 0, h_Gradients |-> <<>>, h_ImagePatterns |-> <<>>,
   h_Fresh |-> FALSE]

\* History: the command-list command being played (none outside playback).
NoCmd == [list |-> -1, pc |-> 0, paint |-> InvalidHandle, submit |-> 0]

\* isCommandListHandleValid()
isCommandListHandleValid(c, handle) ==
  handle # UINT16_MAX /\ handle \in c.m_CmdListHandleAlloc

\* allocCommandList() + createCommandList(): the lowest free handle, its
\* list zeroed and given the flags.  Returns the context and the handle.
createCommandList(c, flags) ==
  LET free == (0..(Len(c.m_CmdLists) - 1)) \ c.m_CmdListHandleAlloc
  IN IF free = {}
       THEN [c |-> c, handle |-> UINT16_MAX]
       ELSE LET h == CHOOSE i \in free : \A j \in free : i <= j
            IN [c |-> [c EXCEPT !.m_CmdListHandleAlloc = @ \cup {h},
                                !.m_CmdLists[h + 1] = [ZeroCommandList EXCEPT !.m_Flags = flags]],
                handle |-> h]

\* clCacheReset(): memSet(cache, 0).
clCacheReset(c, handle) == [c EXCEPT !.m_CmdLists[handle + 1].m_Cache = EmptyCache]

resetCommandList(c, handle) ==
  [clCacheReset(c, handle) EXCEPT
     !.m_CmdLists[handle + 1].m_Commands = <<>>,
     !.m_CmdLists[handle + 1].m_NumImagePatterns = 0,
     !.m_CmdLists[handle + 1].m_NumGradients = 0,
     !.m_CmdLists[handle + 1].h_Version = @ + 1,
     !.m_CmdLists[handle + 1].h_Gradients = <<>>,
     !.m_CmdLists[handle + 1].h_ImagePatterns = <<>>,
     !.m_CmdLists[handle + 1].h_Fresh = TRUE]

\* clAllocCommand() and the CMD_WRITEs after it: one more command record.
clAllocCommand(c, handle, cmd) ==
  [c EXCEPT !.m_CmdLists[handle + 1].m_Commands = Append(@, cmd),
            !.m_CmdLists[handle + 1].h_Version = @ + 1]

clBeginPath(c, handle) == clAllocCommand(c, handle, [type |-> "BeginPath"])
clRect(c, handle, x, y, w, h) ==
  clAllocCommand(c, handle, [type |-> "Rect", x |-> x, y |-> y, w |-> w, h |-> h])
clFillPathColor(c, handle, color, flags) ==
  clAllocCommand(c, handle, [type |-> "FillPathColor", flags |-> flags, color |-> color])
clFillPathGradient(c, handle, gradient, flags) ==
  clAllocCommand(c, handle, [type |-> "FillPathGradient", flags |-> flags, handle |-> gradient])
clFillPathImagePattern(c, handle, img, color, flags) ==
  clAllocCommand(c, handle, [type |-> "FillPathImagePattern", flags |-> flags, color |-> color,
                             handle |-> img])
clStrokePathColor(c, handle, color, width, flags) ==
  clAllocCommand(c, handle, [type |-> "StrokePathColor", width |-> width, flags |-> flags,
                             color |-> color])
clBeginClip(c, handle, rule) == clAllocCommand(c, handle, [type |-> "BeginClip", rule |-> rule])
clEndClip(c, handle) == clAllocCommand(c, handle, [type |-> "EndClip"])
clResetClip(c, handle) == clAllocCommand(c, handle, [type |-> "ResetClip"])

\* clCreateLinearGradient(): returns the context and the list-local handle.
clCreateLinearGradient(c, handle, params) ==
  LET cl == At(c.m_CmdLists, handle)
  IN [c |-> [clAllocCommand(c, handle, [type |-> "CreateLinearGradient", params |-> params])
               EXCEPT !.m_CmdLists[handle + 1].m_NumGradients = (@ + 1) % U16Mod],
      handle |-> [idx |-> cl.m_NumGradients, flags |-> LocalHandle]]

clCreateImagePattern(c, handle, params, image) ==
  LET cl == At(c.m_CmdLists, handle)
  IN [c |-> [clAllocCommand(c, handle, [type |-> "CreateImagePattern", params |-> params,
                                        image |-> image])
               EXCEPT !.m_CmdLists[handle + 1].m_NumImagePatterns = (@ + 1) % U16Mod],
      handle |-> [idx |-> cl.m_NumImagePatterns, flags |-> LocalHandle]]

clPushState(c, handle) == clAllocCommand(c, handle, [type |-> "PushState"])
clPopState(c, handle) == clAllocCommand(c, handle, [type |-> "PopState"])
clResetScissor(c, handle) == clAllocCommand(c, handle, [type |-> "ResetScissor"])
clSetScissor(c, handle, x, y, w, h) ==
  clAllocCommand(c, handle, [type |-> "SetScissor", x |-> x, y |-> y, w |-> w, h |-> h])
clIntersectScissor(c, handle, x, y, w, h) ==
  clAllocCommand(c, handle, [type |-> "IntersectScissor", x |-> x, y |-> y, w |-> w, h |-> h])
clTransformScale(c, handle, x, y) ==
  clAllocCommand(c, handle, [type |-> "TransformScale", x |-> x, y |-> y])
clSubmitCommandList(c, parent, child) ==
  clAllocCommand(c, parent, [type |-> "SubmitCommandList", child |-> child])

\* CommandType ranges FirstPathCommand..LastPathCommand and
\* FirstStrokerCommand..LastStrokerCommand.
IsPathCommand(type) == type \in {"BeginPath", "MoveTo", "LineTo", "Rect", "ClosePath"}
IsStrokerCommand(type) ==
  type \in {"FillPathColor", "FillPathGradient", "FillPathImagePattern", "StrokePathColor"}

\* C5 mutant: a list-local handle is used with its id unchanged.
ResolveHandle_Unchanged(idx, flags, first) == idx

\* isLocal(flags) ? (uint16_t)(handle + first) : handle
ResolveHandle(idx, flags, first) ==
  IF flags = LocalHandle THEN (idx + first) % U16Mod ELSE idx

\* submitCachedMesh(), the three overloads: each cached mesh is transformed
\* into allocTransformedVertices' buffer by the state matrix and handed to
\* the stream; only the Color overload looks at m_RecordClipCommands.
RECURSIVE submitCachedMesh(_, _, _, _, _)
submitCachedMesh(c, paint, col, meshList, i) ==
  IF i > Len(meshList)
    THEN c
    ELSE LET mesh == meshList[i]
             tv == batchTransformPositions(mesh.m_Pos, getState(c).m_TransformMtx)
             c1 == [c EXCEPT !.m_TransformedVertices = tv \o SubSeq(@, Len(tv) + 1, Len(@))]
             colors == IF mesh.m_Colors # <<>> THEN mesh.m_Colors ELSE <<col>>
             c2 == IF paint.kind = "Color"
                     THEN IF c.m_RecordClipCommands
                            THEN createDrawCommand_Clip(c1, tv, mesh.m_Indices)
                            ELSE createDrawCommand_VertexColor(c1, tv, colors, mesh.m_Indices)
                   ELSE IF paint.kind = "Gradient"
                     THEN createDrawCommand_ColorGradient(c1, paint.handle, tv, colors, mesh.m_Indices)
                     ELSE createDrawCommand_ImagePattern(c1, paint.handle, tv, colors, mesh.m_Indices)
         IN submitCachedMesh(c2, paint, col, meshList, i + 1)

\* &clCache->m_Meshes[nextCachedCommand->m_FirstMeshID], m_NumMeshes long.
\* A cached command or mesh past the end of the arrays is a read of memory
\* the cache does not own.
CachedCommandExists(cache, next) ==
  /\ next < Len(cache.m_Commands)
  /\ At(cache.m_Commands, next).m_FirstMeshID + At(cache.m_Commands, next).m_NumMeshes
       <= Len(cache.m_Meshes)
CachedMeshList(cache, next) ==
  LET cmd == At(cache.m_Commands, next)
  IN SubSeq(cache.m_Meshes, cmd.m_FirstMeshID + 1, cmd.m_FirstMeshID + cmd.m_NumMeshes)

\* History: what a submitCommandList call left behind when it returned.
PostOfSubmit(c, handle) ==
  [mtx |-> getState(c).m_TransformMtx,
   scissor |-> getState(c).m_ScissorRect,
   alpha |-> getState(c).m_GlobalAlpha,
   top |-> c.m_StateStackTop,
   clip |-> c.m_ClipState,
   gradients |-> c.m_NextGradientID,
   cacheScale |-> At(c.m_CmdLists, handle).m_Cache.m_AvgScale,
   cacheSrc |-> [k \in 1..Len(At(c.m_CmdLists, handle).m_Cache.m_Commands) |->
                   At(c.m_CmdLists, handle).m_Cache.m_Commands[k].h_Src]]

\* History: the entry of h_Submits opened when a submitCommandList call
\* starts, and closed when it returns.
SubmitEntry(c, handle, hit) ==
  [list |-> handle,
   version |-> At(c.m_CmdLists, handle).h_Version,
   flags |-> At(c.m_CmdLists, handle).m_Flags,
   hit |-> hit,
   depth |-> c.m_SubmitCmdListRecursionDepth,
   depth1 |-> -1,
   played |-> 0,
   empty |-> FALSE,
   post |-> <<>>,
   pre |-> [mtx |-> getState(c).m_TransformMtx,
            avgScale |-> getState(c).m_AvgScale,
            top |-> c.m_StateStackTop,
            scissor |-> getState(c).m_ScissorRect,
            alpha |-> getState(c).m_GlobalAlpha,
            clip |-> c.m_ClipState,
            recording |-> c.m_RecordClipCommands,
            gradients |-> c.m_NextGradientID,
            patterns |-> c.m_NextImagePatternID],
   mesh0 |-> Len(c.h_Meshes), mesh1 |-> Len(c.h_Meshes),
   tess0 |-> c.h_Tess, tess1 |-> c.h_Tess,
   pathKept |-> TRUE,
   done |-> FALSE]
CloseEntry(c0, c1, sid) ==
  [c1 EXCEPT !.h_Submits[sid].mesh1 = Len(c1.h_Meshes),
             !.h_Submits[sid].depth1 = c1.m_SubmitCmdListRecursionDepth,
             !.h_Submits[sid].post = IF c1.h_UB THEN <<>> ELSE <<PostOfSubmit(c1, c1.h_Submits[sid].list)>>,
             !.h_Submits[sid].tess1 = c1.h_Tess,
             !.h_Submits[sid].pathKept = (c1.m_Path = c0.m_Path),
             !.h_Submits[sid].done = TRUE,
             !.h_Cmd = c0.h_Cmd]

\* skipCmds = (scissorRect[2] < 1.0f) || (scissorRect[3] < 1.0f)
EmptyScissor(c) == getState(c).m_ScissorRect[3] < FP \/ getState(c).m_ScissorRect[4] < FP

\* History: whether the last SetScissor, IntersectScissor, PopState or
\* ResetScissor command of submission sid left the scissor empty.
TrackScissor(c, cmd, sid) ==
  IF c.h_UB THEN c
  ELSE IF cmd.type \in {"SetScissor", "IntersectScissor", "PopState"}
    THEN [c EXCEPT !.h_Submits[sid].empty = EmptyScissor(c)]
  ELSE IF cmd.type = "ResetScissor"
    THEN [c EXCEPT !.h_Submits[sid].empty = FALSE]
  ELSE c

\* History: one entry per create call of the frame, made by the caller or
\* by a command of a list being played (src), with the counter it found,
\* the handle it returned and whether it left the counters and the stored
\* gradients and patterns alone.
LogCreate(c0, r, kind) ==
  [r.c EXCEPT !.h_Created = Append(@,
     [kind |-> kind,
      at |-> IF kind = "gradient" THEN c0.m_NextGradientID ELSE c0.m_NextImagePatternID,
      handle |-> r.handle,
      src |-> c0.h_Cmd,
      kept |-> /\ r.c.m_NextGradientID = c0.m_NextGradientID
               /\ r.c.m_NextImagePatternID = c0.m_NextImagePatternID
               /\ r.c.m_Gradients = c0.m_Gradients
               /\ r.c.m_ImagePatterns = c0.m_ImagePatterns])]

PlayedCmd(handle, pc, cmd, sid) ==
  [list |-> handle, pc |-> pc,
   paint |-> IF cmd.type \in {"FillPathGradient", "FillPathImagePattern"}
               THEN cmd.handle ELSE InvalidHandle,
   submit |-> sid]

\* The bracket of a playback under VG_CONFIG_COMMAND_LIST_PRESERVE_STATE,
\* which the context carries as cfg_PreserveState.
PreserveBegin(c) == IF c.cfg_PreserveState THEN ctxPushState(c) ELSE c

PreserveEnd(c) ==
  IF c.cfg_PreserveState /\ ~c.h_UB THEN ctxResetClip(ctxPopState(c)) ELSE c

RECURSIVE ctxSubmitCommandList(_, _)

\* History: one entry per SubmitCommandList command played: the recursion
\* depth it was reached at and returned with, and whether the call left
\* everything but the history as it found it.
LogNested(c, c1) ==
  [c1 EXCEPT !.h_Nested = Append(@,
     [depth |-> c.m_SubmitCmdListRecursionDepth,
      depth1 |-> c1.m_SubmitCmdListRecursionDepth,
      unchanged |-> [c1 EXCEPT !.h_Meshes = c.h_Meshes, !.h_Cmd = c.h_Cmd,
                               !.h_Submits = c.h_Submits, !.h_Tess = c.h_Tess,
                               !.h_Nested = c.h_Nested, !.h_Created = c.h_Created] = c])]

\* C13 mutant: the recursion limit is tested with >.
AtRecursionLimit_OffByOne(c) == c.m_SubmitCmdListRecursionDepth > MaxCommandListDepth

\* C37 mutant: the limit is taken at twice the configured depth.
AtRecursionLimit_Doubled(c) == c.m_SubmitCmdListRecursionDepth >= 2 * MaxCommandListDepth

\* m_SubmitCmdListRecursionDepth >= m_Config.m_MaxCommandListDepth
AtRecursionLimit(c) == c.m_SubmitCmdListRecursionDepth >= MaxCommandListDepth

\* The cases the switch of ctxSubmitCommandList and the switch of
\* clCacheRender have in common: every command that is neither a path
\* command, a stroker command nor SetScissor.  Returns the context and
\* skipCmds (next is filled in by clCacheRender's loop).
PlayStateCommand(c, cmd, skipCmds, cullCmds) ==
  CASE cmd.type = "IndexedTriList" ->
         [c |-> ctxIndexedTriList(c, cmd.pos, cmd.colors, cmd.indices, cmd.image), next |-> 0, skip |-> skipCmds]
    [] cmd.type = "CreateLinearGradient" ->
         [c |-> LogCreate(c, ctxCreateLinearGradient(c, cmd.params), "gradient"),
          next |-> 0, skip |-> skipCmds]
    [] cmd.type = "CreateImagePattern" ->
         [c |-> LogCreate(c, ctxCreateImagePattern(c, cmd.params, cmd.image), "pattern"),
          next |-> 0, skip |-> skipCmds]
    [] cmd.type = "ResetScissor" ->
         [c |-> ctxResetScissor(c), next |-> 0, skip |-> FALSE]
    [] cmd.type = "IntersectScissor" ->
         LET r == ctxIntersectScissor(c, cmd.x, cmd.y, cmd.w, cmd.h)
         IN [c |-> r.c, next |-> 0, skip |-> IF cullCmds THEN ~r.ret ELSE skipCmds]
    [] cmd.type = "PushState" ->
         [c |-> ctxPushState(c), next |-> 0, skip |-> skipCmds]
    [] cmd.type = "PopState" ->
         LET c1 == ctxPopState(c)
         IN [c |-> c1, next |-> 0, skip |-> IF cullCmds /\ ~c1.h_UB THEN EmptyScissor(c1) ELSE skipCmds]
    [] cmd.type = "TransformScale" ->
         [c |-> ctxTransformScale(c, cmd.x, cmd.y), next |-> 0, skip |-> skipCmds]
    [] cmd.type = "BeginClip" ->
         [c |-> ctxBeginClip(c, cmd.rule), next |-> 0, skip |-> skipCmds]
    [] cmd.type = "EndClip" ->
         [c |-> ctxEndClip(c), next |-> 0, skip |-> skipCmds]
    [] cmd.type = "ResetClip" ->
         [c |-> ctxResetClip(c), next |-> 0, skip |-> skipCmds]
    [] cmd.type = "SubmitCommandList" ->
         [c |-> IF isCommandListHandleValid(c, cmd.child)
                  THEN LogNested(c, ctxSubmitCommandList(c, cmd.child)) ELSE c,
          next |-> 0, skip |-> skipCmds]
    [] OTHER -> [c |-> c, next |-> 0, skip |-> skipCmds]

\* The while loop of ctxSubmitCommandList from command pc on.  Playback
\* that ran into undefined behaviour is not followed further.
RECURSIVE SubmitLoop(_, _, _, _, _, _, _, _)
SubmitLoop(c, handle, pc, skipCmds, cullCmds, firstGradientID, firstImagePatternID, sid) ==
  LET cmds == At(c.m_CmdLists, handle).m_Commands
  IN IF pc > Len(cmds) \/ c.h_UB
       THEN c
       ELSE LET cmd == cmds[pc]
                c0 == [c EXCEPT !.h_Cmd = PlayedCmd(handle, pc, cmd, sid),
                                !.h_Submits[sid].played = @ + 1]
                Continue(r) == SubmitLoop(TrackScissor(r.c, cmd, sid), handle, pc + 1, r.skip, cullCmds,
                                          firstGradientID, firstImagePatternID, sid)
            IN Continue(
                     IF skipCmds /\ IsStrokerCommand(cmd.type)
                       THEN [c |-> c0, skip |-> skipCmds]
                     ELSE IF cmd.type = "BeginPath"
                       THEN [c |-> ctxBeginPath(c0), skip |-> skipCmds]
                     ELSE IF cmd.type = "Rect"
                       THEN [c |-> ctxRect(c0, cmd.x, cmd.y, cmd.w, cmd.h), skip |-> skipCmds]
                     ELSE IF cmd.type = "FillPathColor"
                       THEN [c |-> ctxFillPathColor(c0, cmd.color, cmd.flags), skip |-> skipCmds]
                     ELSE IF cmd.type = "FillPathGradient"
                       THEN [c |-> ctxFillPathGradient(c0,
                                     [idx |-> ResolveHandle(cmd.handle.idx, cmd.handle.flags, firstGradientID),
                                      flags |-> 0], cmd.flags),
                             skip |-> skipCmds]
                     ELSE IF cmd.type = "FillPathImagePattern"
                       THEN [c |-> ctxFillPathImagePattern(c0,
                                     [idx |-> ResolveHandle(cmd.handle.idx, cmd.handle.flags, firstImagePatternID),
                                      flags |-> 0], cmd.color, cmd.flags),
                             skip |-> skipCmds]
                     ELSE IF cmd.type = "StrokePathColor"
                       THEN [c |-> ctxStrokePathColor(c0, cmd.color, cmd.width, cmd.flags), skip |-> skipCmds]
                     ELSE IF cmd.type = "SetScissor"
                       THEN LET c1 == ctxSetScissor(c0, cmd.x, cmd.y, cmd.w, cmd.h)
                            IN [c |-> c1, skip |-> IF cullCmds THEN EmptyScissor(c1) ELSE skipCmds]
                     ELSE PlayStateCommand(c0, cmd, skipCmds, cullCmds))

\* The while loop of clCacheRender from command pc on; next is the index
\* of nextCachedCommand.  Path commands are skipped, a stroker command
\* submits the meshes of its cached command, and SetScissor culls on the
\* recorded rectangle.
RECURSIVE CacheLoop(_, _, _, _, _, _, _, _, _)
CacheLoop(c, handle, pc, next, skipCmds, cullCmds, firstGradientID, firstImagePatternID, sid) ==
  LET cmds == At(c.m_CmdLists, handle).m_Commands
      cache == At(c.m_CmdLists, handle).m_Cache
  IN IF pc > Len(cmds) \/ c.h_UB
       THEN c
       ELSE LET cmd == cmds[pc]
                c0 == [c EXCEPT !.h_Cmd = PlayedCmd(handle, pc, cmd, sid),
                                !.h_Submits[sid].played = @ + 1]
                paint == IF cmd.type = "FillPathGradient"
                           THEN GradientPaint([idx |-> ResolveHandle(cmd.handle.idx, cmd.handle.flags, firstGradientID)])
                         ELSE IF cmd.type = "FillPathImagePattern"
                           THEN ImagePatternPaint([idx |-> ResolveHandle(cmd.handle.idx, cmd.handle.flags, firstImagePatternID)])
                           ELSE ColorPaint
                col == IF cmd.type = "FillPathGradient" THEN Black ELSE cmd.color
                Continue(r) == CacheLoop(TrackScissor(r.c, cmd, sid), handle, pc + 1, r.next, r.skip, cullCmds,
                                         firstGradientID, firstImagePatternID, sid)
            IN Continue(
                     IF IsPathCommand(cmd.type)
                       THEN [c |-> c0, skip |-> skipCmds, next |-> next]
                     ELSE IF skipCmds /\ IsStrokerCommand(cmd.type)
                       THEN [c |-> c0, skip |-> skipCmds, next |-> next + 1]
                     ELSE IF IsStrokerCommand(cmd.type)
                       THEN [c |-> IF CachedCommandExists(cache, next)
                                     THEN submitCachedMesh(c0, paint, col, CachedMeshList(cache, next), 1)
                                     ELSE [c0 EXCEPT !.h_UB = TRUE],
                             skip |-> skipCmds, next |-> next + 1]
                     ELSE IF cmd.type = "SetScissor"
                       THEN [c |-> ctxSetScissor(c0, cmd.x, cmd.y, cmd.w, cmd.h),
                             skip |-> IF cullCmds THEN cmd.w < FP \/ cmd.h < FP ELSE skipCmds,
                             next |-> next]
                     ELSE [PlayStateCommand(c0, cmd, skipCmds, cullCmds) EXCEPT !.next = next])

\* clCacheRender()
clCacheRender(c, handle, sid) ==
  LET cl == At(c.m_CmdLists, handle)
  IN IF Len(cl.m_Commands) = 0
       THEN c
       ELSE PreserveEnd(CacheLoop(PreserveBegin(c), handle, 1, 0, FALSE, cl.m_Flags.culling,
                                  c.m_NextGradientID % U16Mod, c.m_NextImagePatternID % U16Mod, sid))

\* destroyCommandList(): the list's cache and buffers freed, the list
\* zeroed and its handle returned to the allocator.
destroyCommandList(c, handle) ==
  [c EXCEPT !.m_CmdLists[handle + 1] = ZeroCommandList,
            !.m_CmdListHandleAlloc = @ \ {handle}]

\* ctxSubmitCommandList(): a no-op at the recursion limit; a Cacheable list
\* whose cache was built at the state's avgScale is served by
\* clCacheRender, else the list is played (and, when Cacheable, its cache
\* rebuilt, with culling off).
ctxSubmitCommandList(c, handle) ==
  IF AtRecursionLimit(c)
    THEN c
  ELSE IF handle >= Len(c.m_CmdLists)
    \* VG_CHECK only: cl points past m_CmdLists and is read.
    THEN [c EXCEPT !.h_UB = TRUE]
    ELSE LET cl == At(c.m_CmdLists, handle)
             sid == Len(c.h_Submits) + 1
             clCache == VG_CONFIG_ENABLE_SHAPE_CACHING /\ cl.m_Flags.cacheable
             stateScale == getState(c).m_AvgScale
             hit == clCache /\ cl.m_Cache.m_AvgScale = stateScale
             c1 == [c EXCEPT !.m_SubmitCmdListRecursionDepth = @ + 1,
                             !.m_CmdLists[handle + 1].h_Fresh = FALSE,
                             !.h_Submits = Append(@, SubmitEntry(c, handle, hit))]
             c2 == IF clCache
                     THEN [clCacheReset(c1, handle) EXCEPT
                             !.m_CmdLists[handle + 1].m_Cache.m_AvgScale = stateScale]
                     ELSE c1
             cullCmds == ~clCache /\ cl.m_Flags.culling
             played == IF Len(cl.m_Commands) = 0
                         THEN c2
                         ELSE popCommandListCache(PreserveEnd(
                                SubmitLoop(PreserveBegin(pushCommandListCache(c2,
                                               IF clCache THEN handle ELSE NullCache)),
                                           handle, 1, FALSE, cullCmds,
                                           c2.m_NextGradientID % U16Mod,
                                           c2.m_NextImagePatternID % U16Mod, sid)))
             c3 == IF hit THEN clCacheRender(c1, handle, sid) ELSE played
         IN CloseEntry(c, [c3 EXCEPT !.m_SubmitCmdListRecursionDepth = @ - 1], sid)

\* ---------------------------------------------------------------- frame
\* C21 mutant: begin leaves m_ForceNewClipCommand and the gradient counter
\* as the last frame left them.
begin_KeepsCounters(c, canvasWidth, canvasHeight) ==
  LET c1 == [c EXCEPT !.m_CanvasWidth = canvasWidth,
                      !.m_CanvasHeight = canvasHeight,
                      !.m_SubmitCmdListRecursionDepth = 0,
                      !.m_CmdListCacheStack = <<>>]
      c2 == ctxTransformIdentity(ctxResetScissor(c1))
      c3 == allocVertexBuffer([c2 EXCEPT !.m_FirstVertexBufferID = NumVertexBuffers(c2)])
      ib == allocIndexBuffer(c3)
  IN [ib.c EXCEPT !.m_ActiveIndexBufferID = ib.ibID,
                  !.m_DrawCommands = <<>>,
                  !.m_ForceNewDrawCommand = TRUE,
                  !.m_ClipCommands = <<>>,
                  !.m_ClipState = NoClipState,
                  !.m_NextImagePatternID = 0]

begin(c, canvasWidth, canvasHeight) ==
  LET c1 == [c EXCEPT !.m_CanvasWidth = canvasWidth,
                      !.m_CanvasHeight = canvasHeight,
                      !.m_SubmitCmdListRecursionDepth = 0,
                      !.m_CmdListCacheStack = <<>>]
      c2 == ctxTransformIdentity(ctxResetScissor(c1))
      c3 == allocVertexBuffer([c2 EXCEPT !.m_FirstVertexBufferID = NumVertexBuffers(c2)])
      ib == allocIndexBuffer(c3)
  IN [ib.c EXCEPT !.m_ActiveIndexBufferID = ib.ibID,
                  !.m_DrawCommands = <<>>,
                  !.m_ForceNewDrawCommand = TRUE,
                  !.m_ClipCommands = <<>>,
                  !.m_ForceNewClipCommand = TRUE,
                  !.m_ClipState = NoClipState,
                  !.m_NextGradientID = 0,
                  !.m_NextImagePatternID = 0]

\* One bgfx::submit of end().
ClipPass(cmdID, ref) == [kind |-> "clip", cmd |-> cmdID, test |-> "ALWAYS", ref |-> ref]
DrawPass(cmdID, stencil) == [kind |-> "draw", cmd |-> cmdID, test |-> stencil.test, ref |-> stencil.ref]
StencilNone == [test |-> "NONE", ref |-> 0]

\* The submission loop of end(): the locals are prevClipCmdID, stencilState
\* and the 8-bit nextStencilValue; passes is what was submitted so far.
RECURSIVE EndLoop(_, _, _, _, _, _)
EndLoop(c, iCmd, prevClipCmdID, stencilState, nextStencilValue, passes) ==
  IF iCmd >= Len(c.m_DrawCommands)
    THEN passes
    ELSE LET cmd == At(c.m_DrawCommands, iCmd)
             cs == cmd.m_ClipState
             changed == cs.m_FirstCmdID # prevClipCmdID
             clipPasses == IF changed /\ cs.m_NumCmds # 0
                             THEN [iClip \in 1..cs.m_NumCmds |->
                                     ClipPass(cs.m_FirstCmdID + iClip - 1, nextStencilValue)]
                             ELSE <<>>
             stencil == IF ~changed THEN stencilState
                        ELSE IF cs.m_NumCmds # 0
                               THEN [test |-> IF cs.m_Rule = "In" THEN "EQUAL" ELSE "NOTEQUAL",
                                     ref |-> nextStencilValue]
                               ELSE StencilNone
             next == IF changed /\ cs.m_NumCmds # 0
                       THEN (nextStencilValue + 1) % 256
                       ELSE nextStencilValue
         IN EndLoop(c, iCmd + 1, cs.m_FirstCmdID, stencil, next,
                    passes \o clipPasses \o <<DrawPass(iCmd, stencil)>>)

\* end(): returns the context and the passes submitted.  With no draw
\* command nothing is uploaded or submitted; otherwise the active index
\* buffer is handed to the backend until its release callback runs.
end(c) ==
  IF Len(c.m_DrawCommands) = 0
    THEN [c |-> c, passes |-> <<>>]
    ELSE [c |-> [c EXCEPT !.bgfx_IndexRefs = @ \cup {c.m_ActiveIndexBufferID},
                          !.bgfx_VertexRefs = @ + 3 * (NumVertexBuffers(c) - c.m_FirstVertexBufferID)],
          passes |-> EndLoop(c, 0, NoClipCmd, StencilNone, 1, <<>>)]

\* frame()
frame(c) == [c EXCEPT !.m_VertexBuffers = <<>>]

\* releaseIndexBuffer(): the backend's release callback resets the buffer
\* for reuse.
releaseIndexBuffer(c, ibID) ==
  [c EXCEPT !.m_IndexBuffers[ibID + 1].m_Count = 0,
            !.bgfx_IndexRefs = @ \ {ibID}]

\* ------------------------------------------------------------- context
\* A State of zeroed memory, and the context createContext() returns.
ZeroState == [m_TransformMtx |-> <<0, 0, 0, 0, 0, 0>>, m_ScissorRect |-> <<0, 0, 0, 0>>,
              m_GlobalAlpha |-> 0, m_FontScale |-> 0, m_AvgScale |-> 0]
ZeroGradient == [params |-> 0, mtx |-> <<0, 0, 0, 0, 0, 0>>]
ZeroImagePattern == [params |-> 0, mtx |-> <<0, 0, 0, 0, 0, 0>>, image |-> 0]

\* History of the clip block begun last: the number of clip commands and
\* meshes when it was begun and ended, the fillPath(Color)/strokePath(Color)
\* calls in it, and whether it is clean: no scissor or state call and no
\* other clip call in it, and no clip call after its endClip.
NoRegion == [phase |-> "none", clean |-> FALSE, rule |-> "In", first |-> 0, fills |-> 0,
             mesh0 |-> 0, nClipEnd |-> 0, meshEnd |-> 0]

\* The two threads between calls: the main thread outside begin and end,
\* the backend thread outside a release callback.
MainIdle == [call |-> "none", sec |-> 0, phase |-> "idle"]
BackendIdle == [ref |-> "none", ib |-> 0, phase |-> "idle"]

\* History: no popState or scissor call so far in the frame.
NoForce == [call |-> 0, op |-> "none", afterReset |-> FALSE]

createContext ==
  [m_CanvasWidth |-> 0,
   m_CanvasHeight |-> 0,
   m_StateStack |-> [i \in 1..MaxStateStackSize |->
                       IF i = 1 THEN updateState([ZeroState EXCEPT !.m_GlobalAlpha = FP,
                                                                   !.m_TransformMtx = IdentityMtx])
                       ELSE ZeroState],
   m_StateStackTop |-> 0,
   m_ClipState |-> [m_Rule |-> "In", m_FirstCmdID |-> 0, m_NumCmds |-> 0],
   m_RecordClipCommands |-> FALSE,
   m_ForceNewDrawCommand |-> FALSE,
   m_ForceNewClipCommand |-> FALSE,
   m_DrawCommands |-> <<>>,
   m_ClipCommands |-> <<>>,
   m_VertexBuffers |-> <<>>,
   m_FirstVertexBufferID |-> 0,
   m_IndexBuffers |-> <<>>,
   m_ActiveIndexBufferID |-> 0,
   bgfx_IndexRefs |-> {},
   bgfx_VertexRefs |-> 0,
   t_Mutex |-> "none",
   t_InPool |-> {},
   t_Main |-> MainIdle,
   t_Backend |-> BackendIdle,
   m_Gradients |-> [i \in 1..MaxGradients |-> ZeroGradient],
   m_ImagePatterns |-> [i \in 1..MaxImagePatterns |-> ZeroImagePattern],
   m_NextGradientID |-> 0,
   m_NextImagePatternID |-> 0,
   m_Path |-> EmptyPath,
   m_PathTransformed |-> FALSE,
   m_TransformedVertices |-> <<>>,
   h_Transformed |-> <<>>,
   m_CmdLists |-> [i \in 1..MaxCommandLists |-> ZeroCommandList],
   m_CmdListHandleAlloc |-> {},
   m_CmdListCacheStack |-> <<>>,
   m_SubmitCmdListRecursionDepth |-> 0,
   h_Meshes |-> <<>>,
   h_Cmd |-> NoCmd,
   h_Submits |-> <<>>,
   h_Nested |-> <<>>,
   h_Tess |-> 0,
   h_Emit |-> FALSE,
   h_Calls |-> 0,
   cfg_PreserveState |-> VG_CONFIG_COMMAND_LIST_PRESERVE_STATE,
   h_Saved |-> <<>>,
   h_Created |-> <<>>,
   h_Pops |-> <<>>,
   h_Force |-> NoForce,
   h_Region |-> NoRegion,
   h_Block |-> 0,
   h_UB |-> FALSE]

\* ------------------------------------------------------------ the run
VARIABLES ctx, submitted, inFrame, budget
vars == <<ctx, submitted, inFrame, budget>>

\* History kept by every API call: the call count, the clip block history,
\* the states saved by pushState and not yet popped (h_Saved), what each
\* popState came back to (h_Pops) and the last popState or scissor call
\* (h_Force).  kind is "path", "paint" (fillPath(Color)/strokePath(Color)),
\* "clip", "state" (scissor, transform and state stack calls, and command
\* list playback) or "other".
Record(c0, c1, op, kind) ==
  LET r == c0.h_Region
      r1 == IF op = "beginClip"
              THEN [phase |-> "open", clean |-> TRUE, rule |-> c1.m_ClipState.m_Rule,
                    first |-> Len(c0.m_ClipCommands), fills |-> 0,
                    mesh0 |-> Len(c0.h_Meshes), nClipEnd |-> 0, meshEnd |-> 0]
            ELSE IF r.phase = "open"
              THEN IF op = "endClip"
                     THEN [r EXCEPT !.phase = "closed", !.nClipEnd = Len(c1.m_ClipCommands),
                                    !.meshEnd = Len(c1.h_Meshes)]
                   ELSE IF kind = "paint" THEN [r EXCEPT !.fills = @ + 1]
                   ELSE IF kind \in {"clip", "state"} THEN [r EXCEPT !.clean = FALSE]
                   ELSE r
            ELSE IF r.phase = "closed"
              THEN IF kind = "clip" THEN [r EXCEPT !.clean = FALSE]
                   ELSE IF Len(c1.h_Meshes) > r.meshEnd THEN [r EXCEPT !.phase = "drawn"]
                   ELSE r
            ELSE r
      saved == IF op = "pushState"
                 THEN Append(c0.h_Saved, [state |-> getState(c0), top |-> c0.m_StateStackTop])
               ELSE IF op = "popState" /\ Len(c0.h_Saved) > 0
                 THEN SubSeq(c0.h_Saved, 1, Len(c0.h_Saved) - 1)
                 ELSE c0.h_Saved
      pops == IF op # "popState" THEN c0.h_Pops
              ELSE Append(c0.h_Pops,
                     [matched |-> Len(c0.h_Saved) > 0,
                      changed |-> Len(c0.h_Saved) > 0 /\ getState(c0) # Last(c0.h_Saved).state,
                      restored |-> /\ Len(c0.h_Saved) > 0
                                   /\ ~c1.h_UB
                                   /\ c1.m_StateStackTop = Last(c0.h_Saved).top
                                   /\ getState(c1) = Last(c0.h_Saved).state])
      force == IF op \in {"popState", "setScissor", "intersectScissor", "resetScissor"}
                 THEN [call |-> c0.h_Calls + 1, op |-> op,
                       afterReset |-> /\ op = "intersectScissor"
                                      /\ c0.h_Force.op = "resetScissor"
                                      /\ c0.h_Force.call = c0.h_Calls]
                 ELSE c0.h_Force
  IN [c1 EXCEPT !.h_Calls = @ + 1, !.h_Region = r1,
                !.h_Saved = saved, !.h_Pops = pops, !.h_Force = force]

Init ==
  /\ ctx = createContext
  /\ submitted = <<>>
  /\ inFrame = FALSE
  /\ budget = [frames |-> MaxFrames, draw |-> MaxDrawCalls, clip |-> MaxClipCalls,
               state |-> MaxStateCalls, path |-> MaxPathCalls,
               rec |-> MaxRecordCalls, submit |-> MaxSubmitCalls]

\* Inputs.
FillInputs ==
  {[color |-> Red, aa |-> FALSE, pathType |-> "Convex"],
   [color |-> Transparent, aa |-> TRUE, pathType |-> "Concave"]}
StrokeInputs == {[color |-> Red, width |-> FP, aa |-> FALSE, fixedWidth |-> FALSE]}
TriPos == <<<<0, 0>>, <<4, 0>>, <<0, 4>>>>
TriIndices == <<0, 1, 2>>
UserImage == 1
ImageInputs == {UserImage}
ScissorInputs == {<<1, 1, 5, 5>>}

InCall == inFrame /\ ~ctx.h_UB
Spend(kind) == budget[kind] > 0 /\ budget' = [budget EXCEPT ![kind] = @ - 1]

\* begin(), with the history of the frame cleared.
BeginFrameOn(c, canvasWidth, canvasHeight) ==
  [begin(c, canvasWidth, canvasHeight) EXCEPT
     !.h_Meshes = <<>>, !.h_Calls = 0, !.h_Block = 0, !.h_Region = NoRegion,
     !.h_Submits = <<>>, !.h_Nested = <<>>, !.h_Tess = 0,
     !.h_Saved = <<>>, !.h_Pops = <<>>, !.h_Force = NoForce,
     !.h_Created = <<>>]
\* begin() on the model's canvas.
BeginFrame(c) == BeginFrameOn(c, CanvasWidth, CanvasHeight)

Begin ==
  /\ ~inFrame /\ ~ctx.h_UB
  /\ Spend("frames")
  /\ ctx' = BeginFrame(ctx)
  /\ inFrame' = TRUE
  /\ UNCHANGED submitted

End ==
  /\ InCall
  /\ ctx' = end(ctx).c
  /\ submitted' = end(ctx).passes
  /\ inFrame' = FALSE
  /\ UNCHANGED budget

Frame ==
  /\ ~inFrame /\ NumVertexBuffers(ctx) > 0
  /\ ctx' = frame(ctx)
  /\ UNCHANGED <<submitted, inFrame, budget>>

ReleaseIndexBuffer ==
  /\ \E ibID \in ctx.bgfx_IndexRefs : ctx' = releaseIndexBuffer(ctx, ibID)
  /\ UNCHANGED <<submitted, inFrame, budget>>

BeginPath ==
  /\ InCall /\ Spend("path")
  /\ ctx' = Record(ctx, ctxBeginPath(ctx), "beginPath", "path")
  /\ UNCHANGED <<submitted, inFrame>>

Rect ==
  /\ InCall /\ Spend("path")
  /\ ctx' = Record(ctx, ctxRect(ctx, 0, 0, 4, 4), "rect", "path")
  /\ UNCHANGED <<submitted, inFrame>>

MoveTo ==
  /\ InCall /\ Spend("path")
  /\ ctx' = Record(ctx, ctxMoveTo(ctx, 2, 2), "moveTo", "path")
  /\ UNCHANGED <<submitted, inFrame>>

LineTo ==
  /\ InCall /\ Spend("path")
  /\ Len(ctx.m_Path.m_SubPaths) > 0
  /\ ctx' = Record(ctx, ctxLineTo(ctx, 6, 2), "lineTo", "path")
  /\ UNCHANGED <<submitted, inFrame>>

FillPathColor ==
  /\ InCall /\ Spend("draw")
  /\ \E in \in FillInputs :
       ctx' = Record(ctx, ctxFillPathColor(ctx, in.color, in), "fillPathColor", "paint")
  /\ UNCHANGED <<submitted, inFrame>>

StrokePathColor ==
  /\ InCall /\ Spend("draw")
  /\ \E in \in StrokeInputs :
       ctx' = Record(ctx, ctxStrokePathColor(ctx, in.color, in.width, in), "strokePathColor", "paint")
  /\ UNCHANGED <<submitted, inFrame>>

CreateLinearGradient ==
  /\ InCall /\ Spend("state")
  /\ ctx' = Record(ctx, LogCreate(ctx, ctxCreateLinearGradient(ctx, 1), "gradient"),
                   "createLinearGradient", "other")
  /\ UNCHANGED <<submitted, inFrame>>

CreateImagePattern ==
  /\ InCall /\ Spend("state")
  /\ \E img \in ImageInputs :
       ctx' = Record(ctx, LogCreate(ctx, ctxCreateImagePattern(ctx, 1, img), "pattern"),
                     "createImagePattern", "other")
  /\ UNCHANGED <<submitted, inFrame>>

FillPathGradient ==
  /\ InCall /\ Spend("draw")
  /\ \E idx \in 0..(ctx.m_NextGradientID - 1) :
       ctx' = Record(ctx, ctxFillPathGradient(ctx, [idx |-> idx, flags |-> 0],
                                              [aa |-> FALSE, pathType |-> "Convex"]),
                     "fillPathGradient", "other")
  /\ UNCHANGED <<submitted, inFrame>>

IndexedTriList ==
  /\ InCall /\ Spend("draw")
  /\ \E img \in ImageInputs :
       ctx' = Record(ctx, ctxIndexedTriList(ctx, TriPos, <<Red>>, TriIndices, img), "indexedTriList", "other")
  /\ UNCHANGED <<submitted, inFrame>>

BeginClip ==
  /\ InCall /\ Spend("clip")
  /\ \E rule \in {"In", "Out"} : ctx' = Record(ctx, ctxBeginClip(ctx, rule), "beginClip", "clip")
  /\ UNCHANGED <<submitted, inFrame>>

EndClip ==
  /\ InCall /\ Spend("clip")
  /\ ctx' = Record(ctx, ctxEndClip(ctx), "endClip", "clip")
  /\ UNCHANGED <<submitted, inFrame>>

ResetClip ==
  /\ InCall /\ Spend("clip")
  /\ ctx' = Record(ctx, ctxResetClip(ctx), "resetClip", "clip")
  /\ UNCHANGED <<submitted, inFrame>>

PushState ==
  /\ InCall /\ Spend("state")
  /\ ctx' = Record(ctx, ctxPushState(ctx), "pushState", "state")
  /\ UNCHANGED <<submitted, inFrame>>

PopState ==
  /\ InCall /\ Spend("state")
  /\ ctx' = Record(ctx, ctxPopState(ctx), "popState", "state")
  /\ UNCHANGED <<submitted, inFrame>>

SetScissor ==
  /\ InCall /\ Spend("state")
  /\ \E r \in ScissorInputs :
       ctx' = Record(ctx, ctxSetScissor(ctx, r[1], r[2], r[3], r[4]), "setScissor", "state")
  /\ UNCHANGED <<submitted, inFrame>>

ResetScissor ==
  /\ InCall /\ Spend("state")
  /\ ctx' = Record(ctx, ctxResetScissor(ctx), "resetScissor", "state")
  /\ UNCHANGED <<submitted, inFrame>>

IntersectScissor ==
  /\ InCall /\ Spend("state")
  /\ ctx' = Record(ctx, ctxIntersectScissor(ctx, 2, 2, 8, 8).c, "intersectScissor", "state")
  /\ UNCHANGED <<submitted, inFrame>>

TransformScale ==
  /\ InCall /\ Spend("state")
  /\ ctx' = Record(ctx, ctxTransformScale(ctx, 2, 2), "transformScale", "state")
  /\ UNCHANGED <<submitted, inFrame>>

TransformTranslate ==
  /\ InCall /\ Spend("state")
  /\ ctx' = Record(ctx, ctxTransformTranslate(ctx, 2, 0), "transformTranslate", "state")
  /\ UNCHANGED <<submitted, inFrame>>

SetGlobalAlpha ==
  /\ InCall /\ Spend("state")
  /\ \E alpha \in {0, 1} : ctx' = Record(ctx, setGlobalAlpha(ctx, alpha), "setGlobalAlpha", "state")
  /\ UNCHANGED <<submitted, inFrame>>

Next ==
  \/ Begin \/ End
  \/ Rect
  \/ FillPathColor \/ CreateLinearGradient \/ FillPathGradient \/ IndexedTriList
  \/ BeginClip \/ EndClip \/ ResetClip
  \/ StrokePathColor \/ SetScissor

Spec == Init /\ [][Next]_vars


\* ------------------------------------------- the run with command lists
ListFlagInputs == [cacheable : BOOLEAN, culling : BOOLEAN]
ConvexFill == [aa |-> FALSE, pathType |-> "Convex"]
\* An empty and a non-empty scissor rectangle.
ListScissorInputs == {<<0, 0, 0, 0>>, <<0, 0, 4 * FP, 4 * FP>>}
GlobalGradient == [idx |-> 0, flags |-> 0]

\* Commands are recorded between frames, while a frame can still follow.
\* The handles of the context's command list slots, allocated or not.
ListSlots == 0..(Len(ctx.m_CmdLists) - 1)

CanRecord(l) ==
  /\ ~inFrame /\ ~ctx.h_UB /\ budget.frames > 0
  /\ l \in ctx.m_CmdListHandleAlloc

CreateCommandList ==
  /\ ~inFrame /\ ~ctx.h_UB /\ budget.frames > 0
  /\ Cardinality(ctx.m_CmdListHandleAlloc) < Len(ctx.m_CmdLists)
  /\ \E flags \in ListFlagInputs : ctx' = createCommandList(ctx, flags).c
  /\ UNCHANGED <<submitted, inFrame, budget>>

ResetCommandList ==
  /\ \E l \in ListSlots :
       /\ CanRecord(l)
       /\ Len(At(ctx.m_CmdLists, l).m_Commands) > 0
       /\ ctx' = resetCommandList(ctx, l)
  /\ Spend("rec")
  /\ UNCHANGED <<submitted, inFrame>>

ClRect ==
  /\ \E l \in ListSlots :
       CanRecord(l) /\ ctx' = clRect(ctx, l, 0, 0, 4, 4)
  /\ Spend("rec")
  /\ UNCHANGED <<submitted, inFrame>>

ClFillPathColor ==
  /\ \E l \in ListSlots :
       CanRecord(l) /\ ctx' = clFillPathColor(ctx, l, Red, ConvexFill)
  /\ Spend("rec")
  /\ UNCHANGED <<submitted, inFrame>>

ClCreateLinearGradient ==
  /\ \E l \in ListSlots :
       /\ CanRecord(l)
       /\ LET r == clCreateLinearGradient(ctx, l, 1)
          IN ctx' = [r.c EXCEPT !.m_CmdLists[l + 1].h_Gradients = Append(@, r.handle)]
  /\ Spend("rec")
  /\ UNCHANGED <<submitted, inFrame>>

ClFillPathGradient ==
  /\ \E l \in ListSlots :
       /\ CanRecord(l)
       /\ \E g \in {At(ctx.m_CmdLists, l).h_Gradients[k] :
                      k \in 1..Len(At(ctx.m_CmdLists, l).h_Gradients)} \cup {GlobalGradient} :
            ctx' = clFillPathGradient(ctx, l, g, ConvexFill)
  /\ Spend("rec")
  /\ UNCHANGED <<submitted, inFrame>>

ClCreateImagePattern ==
  /\ \E l \in ListSlots :
       /\ CanRecord(l)
       /\ LET r == clCreateImagePattern(ctx, l, 1, UserImage)
          IN ctx' = [r.c EXCEPT !.m_CmdLists[l + 1].h_ImagePatterns = Append(@, r.handle)]
  /\ Spend("rec")
  /\ UNCHANGED <<submitted, inFrame>>

ClFillPathImagePattern ==
  /\ \E l \in ListSlots :
       /\ CanRecord(l)
       /\ \E k \in 1..Len(At(ctx.m_CmdLists, l).h_ImagePatterns) :
            ctx' = clFillPathImagePattern(ctx, l, At(ctx.m_CmdLists, l).h_ImagePatterns[k],
                                          Red, ConvexFill)
  /\ Spend("rec")
  /\ UNCHANGED <<submitted, inFrame>>

ClSetScissor ==
  /\ \E l \in ListSlots :
       /\ CanRecord(l)
       /\ \E r \in ListScissorInputs : ctx' = clSetScissor(ctx, l, r[1], r[2], r[3], r[4])
  /\ Spend("rec")
  /\ UNCHANGED <<submitted, inFrame>>

SubmitCommandList ==
  /\ InCall /\ Spend("submit")
  /\ \E l \in ctx.m_CmdListHandleAlloc :
       ctx' = Record(ctx, ctxSubmitCommandList(ctx, l), "submitCommandList", "state")
  /\ UNCHANGED <<submitted, inFrame>>

NextCL ==
  \/ CreateCommandList \/ ResetCommandList
  \/ ClRect \/ ClFillPathColor \/ ClSetScissor
  \/ ClCreateLinearGradient \/ ClFillPathGradient
  \/ ClCreateImagePattern \/ ClFillPathImagePattern
  \/ Begin \/ End
  \/ SubmitCommandList \/ CreateLinearGradient \/ ResetScissor

\* The run in which command lists are recorded and submitted.
SpecCL == Init /\ [][NextCL]_vars

\* ------------------------------------ the run with nested command lists
ClSubmitCommandList ==
  /\ \E l \in ListSlots :
       /\ CanRecord(l)
       /\ \E child \in ctx.m_CmdListHandleAlloc : ctx' = clSubmitCommandList(ctx, l, child)
  /\ Spend("rec")
  /\ UNCHANGED <<submitted, inFrame>>

ClTransformScale ==
  /\ \E l \in ListSlots :
       CanRecord(l) /\ ctx' = clTransformScale(ctx, l, 2, 2)
  /\ Spend("rec")
  /\ UNCHANGED <<submitted, inFrame>>

NextNest ==
  \/ CreateCommandList
  \/ ClRect \/ ClFillPathColor \/ ClTransformScale \/ ClSubmitCommandList
  \/ Begin \/ End
  \/ SubmitCommandList \/ TransformScale

\* The run in which command lists submit command lists.
SpecNest == Init /\ [][NextNest]_vars

\* ------------------------------------ the run with state preservation
ClPushState ==
  /\ \E l \in ListSlots : CanRecord(l) /\ ctx' = clPushState(ctx, l)
  /\ Spend("rec")
  /\ UNCHANGED <<submitted, inFrame>>

ClPopState ==
  /\ \E l \in ListSlots : CanRecord(l) /\ ctx' = clPopState(ctx, l)
  /\ Spend("rec")
  /\ UNCHANGED <<submitted, inFrame>>

ClBeginClip ==
  /\ \E l \in ListSlots :
       CanRecord(l) /\ \E rule \in {"In", "Out"} : ctx' = clBeginClip(ctx, l, rule)
  /\ Spend("rec")
  /\ UNCHANGED <<submitted, inFrame>>

ClEndClip ==
  /\ \E l \in ListSlots : CanRecord(l) /\ ctx' = clEndClip(ctx, l)
  /\ Spend("rec")
  /\ UNCHANGED <<submitted, inFrame>>

\* The build with VG_CONFIG_COMMAND_LIST_PRESERVE_STATE set to 1.
InitPreserve ==
  /\ ctx = [createContext EXCEPT !.cfg_PreserveState = TRUE]
  /\ submitted = <<>>
  /\ inFrame = FALSE
  /\ budget = [frames |-> MaxFrames, draw |-> MaxDrawCalls, clip |-> MaxClipCalls,
               state |-> MaxStateCalls, path |-> MaxPathCalls,
               rec |-> MaxRecordCalls, submit |-> MaxSubmitCalls]

NextPreserve ==
  \/ CreateCommandList
  \/ ClRect \/ ClFillPathColor \/ ClSetScissor \/ ClTransformScale
  \/ ClPushState \/ ClPopState \/ ClBeginClip \/ ClEndClip
  \/ Begin \/ End
  \/ SubmitCommandList \/ TransformScale \/ PushState

SpecPreserve == InitPreserve /\ [][NextPreserve]_vars

\* ------------------------------------------- the run on the state stack
\* Budget of state-stack, transform, scissor and global-alpha calls, and of
\* mesh-producing calls, in a run on the state stack.
MaxStackCalls == 3
MaxStackDraws == 2

InitState ==
  /\ ctx = createContext
  /\ submitted = <<>>
  /\ inFrame = FALSE
  /\ budget = [frames |-> MaxFrames, draw |-> MaxStackDraws, clip |-> MaxClipCalls,
               state |-> MaxStackCalls, path |-> MaxPathCalls, rec |-> 0, submit |-> 0]

NextState ==
  \/ Begin \/ End
  \/ PushState \/ PopState
  \/ SetScissor \/ ResetScissor \/ IntersectScissor
  \/ TransformScale \/ SetGlobalAlpha
  \/ Rect \/ FillPathColor \/ BeginClip \/ EndClip

SpecState == InitState /\ [][NextState]_vars

\* ------------------------------------------ the run on gradient caps
\* Frames, and create and transform calls, of a run on the gradient and
\* image pattern caps.
MaxPaintFrames == 2
MaxPaintCalls == 6

InitPaint ==
  /\ ctx = createContext
  /\ submitted = <<>>
  /\ inFrame = FALSE
  /\ budget = [frames |-> MaxPaintFrames, draw |-> MaxStateCalls, clip |-> 0,
               state |-> MaxPaintCalls, path |-> MaxPathCalls, rec |-> 0, submit |-> 0]

NextPaint ==
  \/ Begin \/ End
  \/ CreateLinearGradient \/ CreateImagePattern \/ TransformScale
  \/ Rect \/ FillPathGradient

SpecPaint == InitPaint /\ [][NextPaint]_vars

\* ------------------------------------------------ the run over frames
\* Calls of each kind in a run over MaxPaintFrames frames.
MaxFrameCalls == 2

InitFrames ==
  /\ ctx = createContext
  /\ submitted = <<>>
  /\ inFrame = FALSE
  /\ budget = [frames |-> MaxPaintFrames, draw |-> MaxFrameCalls, clip |-> MaxFrameCalls,
               state |-> MaxFrameCalls, path |-> MaxPathCalls, rec |-> 0, submit |-> 0]

NextFrames ==
  \/ Begin \/ End \/ Frame \/ ReleaseIndexBuffer
  \/ Rect \/ FillPathColor \/ CreateLinearGradient
  \/ BeginClip \/ EndClip
  \/ PushState \/ SetScissor \/ TransformScale

SpecFrames == InitFrames /\ [][NextFrames]_vars

\* ------------------------------------------ the run with two threads
\* The sections of begin and end that work on the slab pools or on the
\* index-buffer slots, in program order, each with whether the code takes
\* m_DataPoolMutex around it.  begin: allocVertexBuffer, allocIndexBuffer;
\* end without draw commands: the three bx::free calls on the frame's
\* vertex buffer.
MainSections(c, call) ==
  IF call = "begin"
    THEN <<[op |-> "allocVertexBuffer", locked |-> TRUE],
           [op |-> "allocIndexBuffer", locked |-> TRUE]>>
  ELSE IF Len(c.m_DrawCommands) = 0
    THEN <<[op |-> "free", locked |-> FALSE]>>
    ELSE <<>>

MainSection == MainSections(ctx, ctx.t_Main.call)[ctx.t_Main.sec]

\* The main thread enters begin.
ThreadBegin ==
  /\ ~inFrame /\ ~ctx.h_UB /\ ctx.t_Main = MainIdle
  /\ Spend("frames")
  /\ ctx' = [ctx EXCEPT !.t_Main = [call |-> "begin", sec |-> 1, phase |-> "wait"]]
  /\ UNCHANGED <<submitted, inFrame>>

\* The main thread enters end: with draw commands the buffers are handed
\* to the backend and no pool is touched.
ThreadEnd ==
  /\ InCall /\ ctx.t_Main = MainIdle
  /\ inFrame' = FALSE
  /\ IF MainSections(ctx, "end") = <<>>
       THEN ctx' = end(ctx).c /\ submitted' = end(ctx).passes
       ELSE /\ ctx' = [ctx EXCEPT !.t_Main = [call |-> "end", sec |-> 1, phase |-> "wait"]]
            /\ UNCHANGED submitted
  /\ UNCHANGED budget

\* bx::MutexScope on the main thread.
MainAcquire ==
  /\ ctx.t_Main.phase = "wait" /\ MainSection.locked
  /\ ctx.t_Mutex = "none"
  /\ ctx' = [ctx EXCEPT !.t_Mutex = "main", !.t_Main.phase = "held"]
  /\ UNCHANGED <<submitted, inFrame, budget>>

\* The main thread starts the pool operation of its section.
MainPoolEnter ==
  /\ \/ ctx.t_Main.phase = "held"
     \/ ctx.t_Main.phase = "wait" /\ ~MainSection.locked
  /\ ctx' = [ctx EXCEPT !.t_InPool = @ \cup {"main"}, !.t_Main.phase = "pool"]
  /\ UNCHANGED <<submitted, inFrame, budget>>

\* The main thread finishes the pool operation, leaves the scope and goes
\* on to the next section; after the last one the call returns.
MainPoolLeave ==
  /\ ctx.t_Main.phase = "pool"
  /\ LET c1 == [ctx EXCEPT !.t_InPool = @ \ {"main"},
                           !.t_Mutex = IF MainSection.locked THEN "none" ELSE @]
     IN IF ctx.t_Main.sec < Len(MainSections(ctx, ctx.t_Main.call))
          THEN /\ ctx' = [c1 EXCEPT !.t_Main.sec = @ + 1, !.t_Main.phase = "wait"]
               /\ UNCHANGED <<submitted, inFrame>>
        ELSE IF ctx.t_Main.call = "begin"
          THEN /\ ctx' = BeginFrame([c1 EXCEPT !.t_Main = MainIdle])
               /\ inFrame' = TRUE
               /\ UNCHANGED submitted
          ELSE /\ ctx' = end([c1 EXCEPT !.t_Main = MainIdle]).c
               /\ submitted' = end(c1).passes
               /\ UNCHANGED inFrame
  /\ UNCHANGED budget

\* The backend thread enters a release callback of a buffer end() handed
\* over: bx::MutexScope in releaseVertexBuffer*Callback and in
\* releaseIndexBuffer.
BackendAcquire ==
  /\ ctx.t_Backend = BackendIdle /\ ctx.t_Mutex = "none"
  /\ \/ /\ ctx.bgfx_VertexRefs > 0
        /\ ctx' = [ctx EXCEPT !.t_Mutex = "backend",
                              !.t_Backend = [ref |-> "vertex", ib |-> 0, phase |-> "held"]]
     \/ \E ibID \in ctx.bgfx_IndexRefs :
          ctx' = [ctx EXCEPT !.t_Mutex = "backend",
                             !.t_Backend = [ref |-> "index", ib |-> ibID, phase |-> "held"]]
  /\ UNCHANGED <<submitted, inFrame, budget>>

BackendPoolEnter ==
  /\ ctx.t_Backend.phase = "held"
  /\ ctx' = [ctx EXCEPT !.t_InPool = @ \cup {"backend"}, !.t_Backend.phase = "pool"]
  /\ UNCHANGED <<submitted, inFrame, budget>>

BackendPoolLeave ==
  /\ ctx.t_Backend.phase = "pool"
  /\ LET c1 == [ctx EXCEPT !.t_InPool = @ \ {"backend"}, !.t_Mutex = "none",
                           !.t_Backend = BackendIdle]
     IN ctx' = IF ctx.t_Backend.ref = "vertex"
                 THEN [c1 EXCEPT !.bgfx_VertexRefs = @ - 1]
                 ELSE releaseIndexBuffer(c1, ctx.t_Backend.ib)
  /\ UNCHANGED <<submitted, inFrame, budget>>

InitThreads ==
  /\ ctx = createContext
  /\ submitted = <<>>
  /\ inFrame = FALSE
  /\ budget = [frames |-> MaxPaintFrames, draw |-> MaxStateCalls, clip |-> 0,
               state |-> 0, path |-> MaxPathCalls, rec |-> 0, submit |-> 0]

NextThreads ==
  \/ ThreadBegin \/ ThreadEnd
  \/ MainAcquire \/ MainPoolEnter \/ MainPoolLeave
  \/ BackendAcquire \/ BackendPoolEnter \/ BackendPoolLeave
  \/ Rect \/ FillPathColor

SpecThreads == InitThreads /\ [][NextThreads]_vars

\* ------------------------------------------------- the run on paths
\* Path calls of a run on paths with short sub-paths.
MaxPathSteps == 4

InitPath ==
  /\ ctx = createContext
  /\ submitted = <<>>
  /\ inFrame = FALSE
  /\ budget = [frames |-> MaxFrames, draw |-> MaxStateCalls, clip |-> MaxStateCalls,
               state |-> 0, path |-> MaxPathSteps, rec |-> 0, submit |-> 0]

NextPath ==
  \/ Begin \/ End
  \/ BeginPath \/ MoveTo \/ LineTo \/ Rect
  \/ FillPathColor \/ StrokePathColor \/ BeginClip

SpecPath == InitPath /\ [][NextPath]_vars

\* ================================================================ claims
DrawMeshes == {i \in 1..Len(ctx.h_Meshes) : ctx.h_Meshes[i].stream = "draw"}
ClipMeshes == {i \in 1..Len(ctx.h_Meshes) : ctx.h_Meshes[i].stream = "clip"}

\* C1: whenever allocDrawCommand merges a mesh into the existing last draw
\* command, that command's type, handle, scissor (as uint16), clipState and
\* vertex buffer equal the requested type and handle, the current state's
\* scissor, the context's current ClipState and the vertex buffer the new
\* vertices were reserved from.
C1_MergeMatchesRequest ==
  \A i \in DrawMeshes :
    LET e == ctx.h_Meshes[i]
        cmd == At(ctx.m_DrawCommands, e.cmd)
    IN e.merged =>
         /\ cmd.m_Type = e.type
         /\ cmd.m_HandleID = e.handle
         /\ cmd.m_ScissorRect = e.scissor
         /\ cmd.m_ClipState = e.clip
         /\ cmd.m_VertexBufferID = e.vbID

\* What draw command k references: its vertices, and per stored index the
\* absolute index, with the state the command is drawn with.
CommandState(cmd) ==
  [type |-> cmd.m_Type, handle |-> cmd.m_HandleID, scissor |-> cmd.m_ScissorRect,
   clip |-> cmd.m_ClipState, vbID |-> cmd.m_VertexBufferID]
ReferencedVertices(k) ==
  LET cmd == At(ctx.m_DrawCommands, k)
      vb == At(ctx.m_VertexBuffers, cmd.m_VertexBufferID)
  IN [j \in 1..cmd.m_NumVertices |->
        [pos |-> vb.m_Data[cmd.m_FirstVertexID + j].pos,
         color |-> vb.m_Data[cmd.m_FirstVertexID + j].color,
         state |-> CommandState(cmd)]]
ReferencedIndices(k) ==
  LET cmd == At(ctx.m_DrawCommands, k)
      ib == At(ctx.m_IndexBuffers, ctx.m_ActiveIndexBufferID)
  IN [j \in 1..cmd.m_NumIndices |-> cmd.m_FirstVertexID + ib.m_Indices[cmd.m_FirstIndexID + j]]

\* The same for the meshes of command k had each been given its own draw
\* command: every mesh at the vertices reserved for it, drawn with the
\* state current at its call.
MeshState(e) ==
  [type |-> e.type, handle |-> e.handle, scissor |-> e.scissor, clip |-> e.clip, vbID |-> e.vbID]
MeshVertices(e) ==
  [j \in 1..Len(e.pos) |->
     [pos |-> e.pos[j],
      color |-> IF Len(e.colors) = Len(e.pos) THEN e.colors[j] ELSE e.colors[1],
      state |-> MeshState(e)]]
MeshIndices(e) == [j \in 1..Len(e.indices) |-> e.firstVertexID + e.indices[j]]
RECURSIVE UnmergedVertices(_, _)
UnmergedVertices(k, i) ==
  IF i = 0 THEN <<>>
  ELSE UnmergedVertices(k, i - 1) \o
       (IF ctx.h_Meshes[i].stream = "draw" /\ ctx.h_Meshes[i].cmd = k
          THEN MeshVertices(ctx.h_Meshes[i]) ELSE <<>>)
RECURSIVE UnmergedIndices(_, _)
UnmergedIndices(k, i) ==
  IF i = 0 THEN <<>>
  ELSE UnmergedIndices(k, i - 1) \o
       (IF ctx.h_Meshes[i].stream = "draw" /\ ctx.h_Meshes[i].cmd = k
          THEN MeshIndices(ctx.h_Meshes[i]) ELSE <<>>)

\* C2: what the draw commands reference (vertex positions and colours,
\* absolute indices, and the type, handle, scissor and clipState each mesh
\* is drawn with) is the same as when every mesh is forced into its own
\* draw command.
C2_MergingPreservesStreams ==
  inFrame =>
    \A k \in 0..(Len(ctx.m_DrawCommands) - 1) :
      /\ ReferencedVertices(k) = UnmergedVertices(k, Len(ctx.h_Meshes))
      /\ ReferencedIndices(k) = UnmergedIndices(k, Len(ctx.h_Meshes))

\* The draw commands end() submitted, in submission order.
RECURSIVE SubmittedDraws(_)
SubmittedDraws(n) ==
  IF n = 0 THEN <<>>
  ELSE SubmittedDraws(n - 1) \o
       (IF submitted[n].kind = "draw" THEN <<submitted[n].cmd>> ELSE <<>>)

\* C3: a mesh is only ever appended to the most recently created draw
\* command, the commands and the meshes inside one command lie in call
\* order, and end submits the draw commands in array order.
C3_CallOrder ==
  /\ \A i \in DrawMeshes : ctx.h_Meshes[i].cmd = ctx.h_Meshes[i].last
  /\ \A i, j \in DrawMeshes :
       i < j => /\ ctx.h_Meshes[i].cmd <= ctx.h_Meshes[j].cmd
                /\ ctx.h_Meshes[i].cmd = ctx.h_Meshes[j].cmd =>
                     /\ ctx.h_Meshes[i].vertexAt < ctx.h_Meshes[j].vertexAt
                     /\ ctx.h_Meshes[i].indexAt < ctx.h_Meshes[j].indexAt
  /\ (~inFrame /\ budget.frames < MaxFrames) =>
       SubmittedDraws(Len(submitted)) = [k \in 1..Len(ctx.m_DrawCommands) |-> k - 1]

\* C3 witness: a frame ended with two draw commands, one of them holding a
\* merged mesh.
C3_Witness ==
  /\ ~inFrame
  /\ Len(ctx.m_DrawCommands) >= 2
  /\ Len(submitted) >= 2
  /\ \E i \in DrawMeshes : ctx.h_Meshes[i].merged

\* What a mesh adds to its stream: the stream, the type and handle of its
\* command, and its vertex and index data.
MeshContent(e) ==
  [stream |-> e.stream, type |-> e.type, handle |-> e.handle, pos |-> e.pos,
   colors |-> IF e.colors = <<>> THEN <<>>
              ELSE [j \in 1..Len(e.pos) |->
                      IF Len(e.colors) = Len(e.pos) THEN e.colors[j] ELSE e.colors[1]],
   indices |-> e.indices]
\* The meshes submission s of h_Submits appended, in order.
SubmitMeshes(s) == [k \in 1..(s.mesh1 - s.mesh0) |-> MeshContent(ctx.h_Meshes[s.mesh0 + k])]

\* C4: of two finished submissions of one Cacheable command list, not
\* modified in between and started in the same context state (transform,
\* scissor, global alpha, clip state, recording flag, gradient and image
\* pattern counts), the later one, when served from the cache, appends the
\* same meshes as the earlier one and runs no path or stroker command.
C4_CacheReplayEqual ==
  \A i, j \in 1..Len(ctx.h_Submits) :
    LET a == ctx.h_Submits[i]
        b == ctx.h_Submits[j]
    IN (/\ i < j /\ a.done /\ b.done
        /\ a.list = b.list /\ a.version = b.version
        /\ a.flags.cacheable /\ b.hit
        /\ a.pre = b.pre)
       => /\ SubmitMeshes(a) = SubmitMeshes(b)
          /\ b.tess1 = b.tess0
          /\ b.pathKept

\* The meshes drawn by a command-list command with a gradient or an image
\* pattern.
PaintedMeshes ==
  {i \in 1..Len(ctx.h_Meshes) :
     /\ ctx.h_Meshes[i].src.list # -1
     /\ ctx.h_Meshes[i].type \in {"ColorGradient", "ImagePattern"}}
\* nextGradientID / nextImagePatternID when the submitCommandList call that
\* drew mesh e started.
BaseAtSubmitStart(e) ==
  IF e.type = "ColorGradient"
    THEN ctx.h_Submits[e.src.submit].pre.gradients
    ELSE ctx.h_Submits[e.src.submit].pre.patterns

\* C5: the k-th gradient or image pattern created in a command list since
\* its creation or last reset (counting from 0) has the handle {k, Local};
\* a mesh played back with a Local handle k is drawn with id k + B, B being
\* nextGradientID (nextImagePatternID) when its submitCommandList call
\* started, and with the recorded id when the handle is not Local.
C5_LocalHandles ==
  /\ \A l \in 1..MaxCommandLists :
       /\ Len(ctx.m_CmdLists[l].h_Gradients) = ctx.m_CmdLists[l].m_NumGradients
       /\ Len(ctx.m_CmdLists[l].h_ImagePatterns) = ctx.m_CmdLists[l].m_NumImagePatterns
       /\ \A k \in 1..Len(ctx.m_CmdLists[l].h_Gradients) :
            ctx.m_CmdLists[l].h_Gradients[k] = [idx |-> k - 1, flags |-> LocalHandle]
       /\ \A k \in 1..Len(ctx.m_CmdLists[l].h_ImagePatterns) :
            ctx.m_CmdLists[l].h_ImagePatterns[k] = [idx |-> k - 1, flags |-> LocalHandle]
  /\ \A i \in PaintedMeshes :
       LET e == ctx.h_Meshes[i]
       IN e.handle = IF e.src.paint.flags = LocalHandle
                       THEN (e.src.paint.idx + BaseAtSubmitStart(e)) % U16Mod
                       ELSE e.src.paint.idx

\* C5 witness: a mesh drawn through a Local handle over a base that is not
\* 0, and a mesh drawn through a handle that is not Local.
C5_Witness ==
  /\ \E i \in PaintedMeshes :
       /\ ctx.h_Meshes[i].src.paint.flags = LocalHandle
       /\ BaseAtSubmitStart(ctx.h_Meshes[i]) > 0
  /\ \E i \in PaintedMeshes : ctx.h_Meshes[i].src.paint.flags # LocalHandle

\* The clip meshes of the clip block h_Region describes, once it is ended.
BlockClipMeshes ==
  {i \in (ctx.h_Region.mesh0 + 1)..ctx.h_Region.meshEnd : ctx.h_Meshes[i].stream = "clip"}
\* beginClip, fillPath(Color)/strokePath(Color) calls and endClip, with no
\* scissor or state call and no vertex-buffer overflow between the meshes.
ClipBlockEnded ==
  /\ ctx.h_Region.phase \in {"closed", "drawn"}
  /\ ctx.h_Region.clean
  /\ ctx.h_Region.fills >= 1
  /\ \A i, j \in BlockClipMeshes : ctx.h_Meshes[i].vbID = ctx.h_Meshes[j].vbID
\* The first mesh after the block's endClip starts a draw command with the
\* clipState {rule, first, numCmds}.
NextMeshClipped(numCmds) ==
  ctx.h_Region.phase = "drawn" =>
    LET e == ctx.h_Meshes[ctx.h_Region.meshEnd + 1]
    IN /\ e.stream = "draw"
       /\ ~e.merged
       /\ At(ctx.m_DrawCommands, e.cmd).m_ClipState =
            [m_Rule |-> ctx.h_Region.rule, m_FirstCmdID |-> ctx.h_Region.first,
             m_NumCmds |-> numCmds]

\* C6 as stated: after beginClip(rule), one or more fillPath(Color) or
\* strokePath(Color) calls and endClip, the clip stream has gained exactly
\* one clip command holding all the meshes, and the next mesh drawn starts a
\* new draw command with clipState {first, 1, rule}.
C6_OneClipCommand ==
  ClipBlockEnded =>
    /\ ctx.h_Region.nClipEnd = ctx.h_Region.first + 1
    /\ \A i \in BlockClipMeshes : ctx.h_Meshes[i].cmd = ctx.h_Region.first
    /\ NextMeshClipped(1)

\* C6 amended: the same when the calls of the block produced at least one
\* mesh; when they produced none (an empty path) the clip stream has gained
\* nothing and the next mesh drawn starts a new draw command with clipState
\* {first, 0, rule}.
C6_OneClipCommandPerMeshedBlock ==
  ClipBlockEnded =>
    IF BlockClipMeshes # {}
      THEN /\ ctx.h_Region.nClipEnd = ctx.h_Region.first + 1
           /\ \A i \in BlockClipMeshes : ctx.h_Meshes[i].cmd = ctx.h_Region.first
           /\ NextMeshClipped(1)
      ELSE /\ ctx.h_Region.nClipEnd = ctx.h_Region.first
           /\ NextMeshClipped(0)

\* C6 witness: a block whose two meshes share one clip command, and a mesh
\* drawn after its endClip.
C6_Witness ==
  /\ ClipBlockEnded
  /\ ctx.h_Region.phase = "drawn"
  /\ Cardinality(BlockClipMeshes) >= 2

\* What C7 says end submits, draw command k onwards: prev is the clipState
\* of the previous draw command, stencil the test in force, r the next
\* reference value.
RECURSIVE ClaimedPasses(_, _, _, _, _)
ClaimedPasses(k, prev, stencil, r, passes) ==
  IF k >= Len(ctx.m_DrawCommands)
    THEN passes
    ELSE LET cs == At(ctx.m_DrawCommands, k).m_ClipState
             changed == cs # prev
             region == changed /\ cs.m_FirstCmdID # NoClipCmd /\ cs.m_NumCmds > 0
             test == IF region
                       THEN [test |-> IF cs.m_Rule = "In" THEN "EQUAL" ELSE "NOTEQUAL", ref |-> r]
                     ELSE IF changed THEN StencilNone
                     ELSE stencil
         IN ClaimedPasses(k + 1, cs, test, IF region THEN r + 1 ELSE r,
              passes
              \o (IF region
                    THEN [n \in 1..cs.m_NumCmds |-> ClipPass(cs.m_FirstCmdID + n - 1, r)]
                    ELSE <<>>)
              \o <<DrawPass(k, test)>>)

\* C7: end submits, for every draw command whose clipState differs from
\* the previous draw command's and has numCmds > 0, the clip commands of
\* its range as stencil writes of a reference value r, then the draw
\* command and its successors of the same region with test EQUAL r (In) or
\* NOTEQUAL r (Out); r is 1 for the first region and grows by 1 per region.
C7_StencilPasses ==
  ~inFrame => submitted = ClaimedPasses(0, NoClipState, StencilNone, 1, <<>>)

\* C8: while a clip block is open, a mesh produced by fillPath or strokePath
\* goes to the clip stream (so a gradient or image pattern fill adds no
\* mesh at all, and none reaches the draw stream).
C8_RecordingToClipStream ==
  \A i \in 1..Len(ctx.h_Meshes) :
    (ctx.h_Meshes[i].stroker /\ ctx.h_Meshes[i].recording) =>
      /\ ctx.h_Meshes[i].stream = "clip"
      /\ ctx.h_Meshes[i].type = "Clip"

\* C9: within a frame the number of clip commands never decreases, the
\* step that ends a block sets numCmds = numClipCommands - firstCmdID, which
\* is not negative, and a beginClip when a block is open changes neither the
\* recording flag, the ClipState nor the clip stream.
C9_ClipRecordingWellFormed ==
  [][(inFrame /\ inFrame') =>
       /\ Len(ctx'.m_ClipCommands) >= Len(ctx.m_ClipCommands)
       /\ (ctx.m_RecordClipCommands /\ ~ctx'.m_RecordClipCommands) =>
            /\ ctx.m_ClipState.m_FirstCmdID <= Len(ctx'.m_ClipCommands)
            /\ ctx'.m_ClipState.m_NumCmds =
                 Len(ctx'.m_ClipCommands) - ctx.m_ClipState.m_FirstCmdID
       /\ (ctx.m_RecordClipCommands /\ ctx'.h_Block = ctx.h_Block + 1) =>
            /\ ctx'.m_RecordClipCommands = ctx.m_RecordClipCommands
            /\ ctx'.m_ClipState = ctx.m_ClipState
            /\ ctx'.m_ClipCommands = ctx.m_ClipCommands]_vars

\* The clip commands created in clip block b, and the block draw command k
\* was created in (the block whose beginClip set the clipState it holds).
BlockClipCommands(b) ==
  {ctx.h_Meshes[i].cmd : i \in {j \in ClipMeshes : ctx.h_Meshes[j].block = b /\ ~ctx.h_Meshes[j].merged}}
BlockOfDrawCommand(k) ==
  ctx.h_Meshes[CHOOSE i \in DrawMeshes : ctx.h_Meshes[i].cmd = k /\ ~ctx.h_Meshes[i].merged].block
ClipRange(cs) == cs.m_FirstCmdID..(cs.m_FirstCmdID + cs.m_NumCmds - 1)
ClippedDrawCommands ==
  {k \in 0..(Len(ctx.m_DrawCommands) - 1) :
     At(ctx.m_DrawCommands, k).m_ClipState.m_FirstCmdID # NoClipCmd}

\* C10: at end, the clipState of every draw command that has one lies
\* inside the clip stream, its range is exactly the clip commands created
\* in the block that defined it, ranges of different blocks are disjoint,
\* and no clip mesh was merged into a clip command of an earlier block.
C10_ClipRanges ==
  ~inFrame =>
    /\ \A k \in ClippedDrawCommands :
         LET cs == At(ctx.m_DrawCommands, k).m_ClipState
         IN /\ cs.m_FirstCmdID + cs.m_NumCmds <= Len(ctx.m_ClipCommands)
            /\ ClipRange(cs) = BlockClipCommands(BlockOfDrawCommand(k))
    /\ \A k1, k2 \in ClippedDrawCommands :
         BlockOfDrawCommand(k1) # BlockOfDrawCommand(k2) =>
           ClipRange(At(ctx.m_DrawCommands, k1).m_ClipState)
             \cap ClipRange(At(ctx.m_DrawCommands, k2).m_ClipState) = {}
    /\ \A i \in ClipMeshes : ctx.h_Meshes[i].cmd \in BlockClipCommands(ctx.h_Meshes[i].block)

\* The command of its stream a mesh of the history went to.
CommandOfMesh(e) ==
  IF e.stream = "draw" THEN At(ctx.m_DrawCommands, e.cmd) ELSE At(ctx.m_ClipCommands, e.cmd)
\* Every mesh handed in so far fits a vertex buffer and indexes its own
\* vertices only.
MeshesWellFormed ==
  \A i \in 1..Len(ctx.h_Meshes) :
    /\ Len(ctx.h_Meshes[i].pos) <= MaxVBVertices
    /\ \A j \in 1..Len(ctx.h_Meshes[i].indices) :
         ctx.h_Meshes[i].indices[j] \in 0..(Len(ctx.h_Meshes[i].pos) - 1)

C12_OneVertexBufferPerCommand ==
  /\ \A v \in 1..Len(ctx.m_VertexBuffers) : ctx.m_VertexBuffers[v].m_Count <= MaxVBVertices
  /\ \A i \in 1..Len(ctx.h_Meshes) :
       /\ CommandOfMesh(ctx.h_Meshes[i]).m_VertexBufferID = ctx.h_Meshes[i].vbID
       /\ ctx.h_Meshes[i].firstVertexID >= 0
       /\ ctx.h_Meshes[i].firstVertexID + Len(ctx.h_Meshes[i].pos) <= MaxVBVertices
  /\ (Len(ctx.m_DrawCommands) > 0 /\ NumVertexBuffers(ctx) > 0
        /\ Last(ctx.m_DrawCommands).m_VertexBufferID # NumVertexBuffers(ctx) - 1)
       => ctx.m_ForceNewDrawCommand
  /\ (Len(ctx.m_ClipCommands) > 0 /\ NumVertexBuffers(ctx) > 0
        /\ Last(ctx.m_ClipCommands).m_VertexBufferID # NumVertexBuffers(ctx) - 1)
       => ctx.m_ForceNewClipCommand

\* C12 witness: draw and clip meshes interleaved; a draw mesh overflowed the
\* vertex buffer that holds the last clip command, and the clip stream's
\* force flag is still pending.
C12_Witness ==
  /\ Len(ctx.m_ClipCommands) > 0 /\ Len(ctx.m_DrawCommands) > 0
  /\ Last(ctx.m_ClipCommands).m_NumVertices > 0
  /\ Last(ctx.m_ClipCommands).m_VertexBufferID < NumVertexBuffers(ctx) - 1
  /\ Last(ctx.m_DrawCommands).m_VertexBufferID = NumVertexBuffers(ctx) - 1
  /\ ctx.m_ForceNewClipCommand
  /\ \E i \in DrawMeshes : \E j \in ClipMeshes : j < i

\* The submissions of the frame that have returned.
DoneSubmits == {s \in 1..Len(ctx.h_Submits) : ctx.h_Submits[s].done}

\* C13: the recursion depth of a submission never reaches
\* MaxCommandListDepth; a SubmitCommandList command reached at the limit
\* changes nothing; every submission plays all commands of its list and
\* returns with the depth counter it was entered with, 0 after a top-level
\* call, on the cache-hit and the empty-list path too.
C13_RecursionDepth ==
  ~ctx.h_UB =>
    /\ ctx.m_SubmitCmdListRecursionDepth = 0
    /\ \A s \in 1..Len(ctx.h_Submits) :
         /\ ctx.h_Submits[s].done
         /\ ctx.h_Submits[s].depth < MaxCommandListDepth
         /\ ctx.h_Submits[s].depth1 = ctx.h_Submits[s].depth
         /\ ctx.h_Submits[s].version = At(ctx.m_CmdLists, ctx.h_Submits[s].list).h_Version
              => ctx.h_Submits[s].played = Len(At(ctx.m_CmdLists, ctx.h_Submits[s].list).m_Commands)
    /\ \A n \in 1..Len(ctx.h_Nested) :
         /\ ctx.h_Nested[n].depth <= MaxCommandListDepth
         /\ ctx.h_Nested[n].depth1 = ctx.h_Nested[n].depth
         /\ ctx.h_Nested[n].depth = MaxCommandListDepth => ctx.h_Nested[n].unchanged

\* C13 witness: a nested submission was rejected at the limit and the
\* submissions around it went on to add a mesh after it.
C13_Witness ==
  /\ ~ctx.h_UB
  /\ \E n \in 1..Len(ctx.h_Nested) : ctx.h_Nested[n].depth = MaxCommandListDepth
  /\ \E s \in DoneSubmits :
       /\ ctx.h_Submits[s].depth = MaxCommandListDepth - 1
       /\ \E i \in 1..Len(ctx.h_Meshes) :
            /\ ctx.h_Meshes[i].src.submit < s
            /\ i > ctx.h_Submits[s].mesh1

\* The command of the list a mesh of a playback comes from.
SourceCommand(e) == At(ctx.m_CmdLists, e.src.list).m_Commands[e.src.pc]
\* The number of commands of the given type in list l.
CountCommands(l, type) ==
  Cardinality({k \in 1..Len(At(ctx.m_CmdLists, l).m_Commands) :
                 At(ctx.m_CmdLists, l).m_Commands[k].type = type})

\* C14: during playback of a list with AllowCommandCulling, no fill or
\* stroke command of the list adds a mesh to either stream while the last
\* SetScissor, IntersectScissor, PopState or ResetScissor command of that
\* playback left the scissor less than one unit wide or high; the other
\* commands are still executed (every CreateLinearGradient command of the
\* list has allocated a gradient, up to the cap).
C14_CulledWhileScissorEmpty ==
  /\ \A i \in 1..Len(ctx.h_Meshes) :
       (/\ ctx.h_Meshes[i].src.submit # 0
        /\ ctx.h_Submits[ctx.h_Meshes[i].src.submit].flags.culling
        /\ IsStrokerCommand(SourceCommand(ctx.h_Meshes[i]).type))
         => ~ctx.h_Meshes[i].culled
  /\ \A s \in DoneSubmits :
       (/\ ctx.h_Submits[s].flags.culling
        /\ ctx.h_Submits[s].post # <<>>
        /\ CountCommands(ctx.h_Submits[s].list, "SubmitCommandList") = 0)
         => ctx.h_Submits[s].post[1].gradients =
              Min(MaxGradients, ctx.h_Submits[s].pre.gradients
                                  + CountCommands(ctx.h_Submits[s].list, "CreateLinearGradient"))

\* The positions of the fill and stroke commands of list l, in bytecode
\* order.
StrokerCommands(l) ==
  SelectSeq([k \in 1..Len(At(ctx.m_CmdLists, l).m_Commands) |-> k],
            LAMBDA k : IsStrokerCommand(At(ctx.m_CmdLists, l).m_Commands[k].type))

\* A submission that found the cache of its non-empty Cacheable list built
\* at another avgScale than the state's, and has returned.
RebuiltSubmits ==
  {s \in DoneSubmits :
     /\ ctx.h_Submits[s].flags.cacheable
     /\ ~ctx.h_Submits[s].hit
     /\ ctx.h_Submits[s].post # <<>>
     /\ Len(At(ctx.m_CmdLists, ctx.h_Submits[s].list).m_Commands) > 0}

\* C15: when a submission that rebuilt the cache of its list returns, the
\* cache's avgScale is the state's avgScale at the start of the submission
\* and the cache holds one cached command per fill or stroke command of the
\* list, in bytecode order, each recorded by this submission and none by a
\* nested one.
C15_CacheRebuilt ==
  \A s \in RebuiltSubmits :
    LET e == ctx.h_Submits[s]
        pcs == StrokerCommands(e.list)
    IN /\ e.post[1].cacheScale = e.pre.avgScale
       /\ Len(e.post[1].cacheSrc) = Len(pcs)
       /\ \A j \in 1..Len(pcs) :
            /\ e.post[1].cacheSrc[j].list = e.list
            /\ e.post[1].cacheSrc[j].pc = pcs[j]
            /\ e.post[1].cacheSrc[j].submit = s

\* This step is a pushState call / a popState call.
IsPushStep == Len(ctx'.h_Saved) = Len(ctx.h_Saved) + 1
IsPopStep == Len(ctx'.h_Pops) = Len(ctx.h_Pops) + 1

\* C16: the state-stack top index stays in [0, maxStateStackSize); a
\* popState at top 0 and a pushState at top maxStateStackSize-1 leave the
\* stack top and every stored state as they were.
C16_StateStackTopInRange ==
  [][/\ ctx'.m_StateStackTop \in 0..(MaxStateStackSize - 1)
     /\ (IsPopStep /\ ctx.m_StateStackTop = 0)
          => (ctx'.m_StateStackTop = ctx.m_StateStackTop /\ ctx'.m_StateStack = ctx.m_StateStack)
     /\ (IsPushStep /\ ctx.m_StateStackTop = MaxStateStackSize - 1)
          => (ctx'.m_StateStackTop = ctx.m_StateStackTop /\ ctx'.m_StateStack = ctx.m_StateStack)]_vars

\* C17: every popState that matches a pushState of the frame leaves the
\* current state (transform, scissor rect, global alpha, avgScale,
\* fontScale) and the stack top index as they were just before that
\* pushState, whatever transform, scissor and global-alpha calls came
\* between the two.
C17_PopRestoresState ==
  \A k \in 1..Len(ctx.h_Pops) : ctx.h_Pops[k].matched => ctx.h_Pops[k].restored

\* A popState has restored a state that the calls since its pushState had
\* changed.
C17_Witness ==
  \E k \in 1..Len(ctx.h_Pops) :
    ctx.h_Pops[k].matched /\ ctx.h_Pops[k].changed /\ ctx.h_Pops[k].restored

\* The meshes added to a stream since the last popState or scissor call.
MeshesSinceForce(stream) ==
  {i \in 1..Len(ctx.h_Meshes) :
     ctx.h_Meshes[i].stream = stream /\ ctx.h_Meshes[i].call > ctx.h_Force.call}

\* C18: right after a popState, setScissor, intersectScissor or
\* resetScissor call both force flags are set, and the first mesh added to
\* the draw stream, and the first added to the clip stream, after the call
\* starts a new command.
C18_ForceNewCommands ==
  ctx.h_Force.call > 0 =>
    /\ ctx.h_Calls = ctx.h_Force.call
         => (ctx.m_ForceNewDrawCommand /\ ctx.m_ForceNewClipCommand)
    /\ \A stream \in {"draw", "clip"} : \A i \in MeshesSinceForce(stream) :
         (\A j \in MeshesSinceForce(stream) : i <= j) => ~ctx.h_Meshes[i].merged

\* C19: nextGradientID never exceeds maxGradients and nextImagePatternID
\* never exceeds maxImagePatterns; a create call that finds its counter at
\* the cap returns the invalid handle and leaves the counters and every
\* stored gradient and pattern unchanged; both counters are 0 after begin.
C19_PaintCaps ==
  /\ ctx.m_NextGradientID <= MaxGradients
  /\ ctx.m_NextImagePatternID <= MaxImagePatterns
  /\ \A k \in 1..Len(ctx.h_Created) :
       ctx.h_Created[k].at >= (IF ctx.h_Created[k].kind = "gradient"
                                 THEN MaxGradients ELSE MaxImagePatterns)
         => (ctx.h_Created[k].handle = InvalidHandle /\ ctx.h_Created[k].kept)
  /\ (inFrame /\ ctx.h_Calls = 0)
       => (ctx.m_NextGradientID = 0 /\ ctx.m_NextImagePatternID = 0)

\* In the second frame a gradient and an image pattern have been asked for
\* with their counters at the cap.
C19_Witness ==
  /\ budget.frames = 0
  /\ \E k \in 1..Len(ctx.h_Created) :
       ctx.h_Created[k].kind = "gradient" /\ ctx.h_Created[k].at = MaxGradients
  /\ \E k \in 1..Len(ctx.h_Created) :
       ctx.h_Created[k].kind = "pattern" /\ ctx.h_Created[k].at = MaxImagePatterns

\* PushState commands less PopState commands among the first k commands
\* of list l.
StackDepthAfter(l, k) ==
  Cardinality({j \in 1..k : At(ctx.m_CmdLists, l).m_Commands[j].type = "PushState"})
    - Cardinality({j \in 1..k : At(ctx.m_CmdLists, l).m_Commands[j].type = "PopState"})

\* The PushState and PopState commands of list l balance: no PopState
\* without an earlier PushState of the list, and none left open.
Balanced(l) ==
  /\ \A k \in 1..Len(At(ctx.m_CmdLists, l).m_Commands) : StackDepthAfter(l, k) >= 0
  /\ StackDepthAfter(l, Len(At(ctx.m_CmdLists, l).m_Commands)) = 0

\* The submissions that have returned from playing a non-empty balanced
\* list under state preservation.
PreservedSubmits ==
  {s \in DoneSubmits :
     /\ ctx.cfg_PreserveState
     /\ ctx.h_Submits[s].post # <<>>
     /\ ctx.h_Submits[s].version = At(ctx.m_CmdLists, ctx.h_Submits[s].list).h_Version
     /\ Len(At(ctx.m_CmdLists, ctx.h_Submits[s].list).m_Commands) > 0
     /\ Balanced(ctx.h_Submits[s].list)}

\* C20: with state preservation, a submission that has played a non-empty
\* list whose PushState and PopState commands balance leaves the stack top
\* index, the transform, the scissor and the global alpha as it found them
\* and the clip state at none, on the uncached and on the cache-hit path.
C20_SubmissionPreservesState ==
  \A s \in PreservedSubmits :
    LET e == ctx.h_Submits[s]
    IN /\ e.post[1].top = e.pre.top
       /\ e.post[1].mtx = e.pre.mtx
       /\ e.post[1].scissor = e.pre.scissor
       /\ e.post[1].alpha = e.pre.alpha
       /\ e.post[1].clip.m_FirstCmdID = NoClipCmd
       /\ e.post[1].clip.m_NumCmds = 0

\* The state begin has to leave behind.
FrameStarted ==
  /\ Len(ctx.m_DrawCommands) = 0
  /\ Len(ctx.m_ClipCommands) = 0
  /\ ctx.m_NextGradientID = 0
  /\ ctx.m_NextImagePatternID = 0
  /\ ctx.m_ClipState.m_FirstCmdID = NoClipCmd
  /\ ctx.m_ClipState.m_NumCmds = 0
  /\ ctx.m_ForceNewDrawCommand
  /\ ctx.m_ForceNewClipCommand
  /\ ctx.m_SubmitCmdListRecursionDepth = 0
  /\ getState(ctx).m_ScissorRect = <<0, 0, ctx.m_CanvasWidth * FP, ctx.m_CanvasHeight * FP>>
  /\ getState(ctx).m_TransformMtx = <<1, 0, 0, 1, 0, 0>>
  /\ At(ctx.m_IndexBuffers, ctx.m_ActiveIndexBufferID).m_Count = 0
  /\ NumVertexBuffers(ctx) > ctx.m_FirstVertexBufferID
  /\ Last(ctx.m_VertexBuffers).m_Count = 0

\* C21: immediately after begin, whatever the earlier frames did, there
\* are no draw and no clip commands, both paint counters are 0, the clip
\* state is none with numCmds 0, both force flags are set, the recursion
\* depth is 0, the scissor is the full canvas, the transform is identity,
\* the active index buffer is empty and a new, empty vertex buffer is the
\* active one.
C21_BeginResetsFrame ==
  [][(~inFrame /\ inFrame') => FrameStarted']_vars

\* The second frame has just begun after a frame that drew, created a
\* gradient, left a clip state set and left a state pushed.
C21_Witness ==
  /\ inFrame /\ ctx.h_Calls = 0
  /\ budget.frames = 0
  /\ budget.draw < MaxFrameCalls
  /\ budget.clip < MaxFrameCalls
  /\ budget.state = 0
  /\ ctx.m_StateStackTop > 0
  /\ NumVertexBuffers(ctx) > 1

\* C22: every operation on the slab pools and every change of an
\* index-buffer slot's in-use state runs with m_DataPoolMutex held by its
\* thread, so no two of them overlap.
C22_PoolsUnderMutex ==
  /\ \A t \in ctx.t_InPool : ctx.t_Mutex = t
  /\ Cardinality(ctx.t_InPool) <= 1

\* The path with every sub-path of fewer than n vertices taken out.
RECURSIVE PathWithoutShort(_, _, _, _)
PathWithoutShort(path, n, i, acc) ==
  IF i > Len(path.m_SubPaths)
    THEN acc
    ELSE LET sp == path.m_SubPaths[i]
         IN PathWithoutShort(path, n, i + 1,
              IF sp.m_NumVertices < n
                THEN acc
                ELSE [m_Vertices |-> acc.m_Vertices
                        \o SubSeq(path.m_Vertices, sp.m_FirstVertexID + 1,
                                   sp.m_FirstVertexID + sp.m_NumVertices),
                      m_SubPaths |-> Append(acc.m_SubPaths,
                        [sp EXCEPT !.m_FirstVertexID = Len(acc.m_Vertices)])])
\* The context with those sub-paths taken out of the path and, when the
\* path has been transformed already, out of the transformed vertices.
WithoutShort(c, n) ==
  LET tv == [i \in 1..Len(c.m_Path.m_Vertices) |->
               IF i <= Len(c.m_TransformedVertices) THEN c.m_TransformedVertices[i] ELSE Garbage.pos]
  IN [c EXCEPT !.m_Path = PathWithoutShort(c.m_Path, n, 1, EmptyPath),
               !.m_TransformedVertices =
                  IF c.m_PathTransformed
                    THEN PathWithoutShort([c.m_Path EXCEPT !.m_Vertices = tv], n, 1, EmptyPath).m_Vertices
                    ELSE @]

\* The meshes a call that took the context from c0 to c1 emitted.
EmittedBy(c0, c1) ==
  [k \in 1..(Len(c1.h_Meshes) - Len(c0.h_Meshes)) |-> MeshContent(c1.h_Meshes[Len(c0.h_Meshes) + k])]

\* The fills and strokes compared: opaque, convex and concave, with and
\* without anti-aliasing.
ShortFillInputs == [color : {Red}, aa : BOOLEAN, pathType : {"Convex", "Concave"}]
ShortStrokeInputs == [color : {Red}, width : {FP}, aa : BOOLEAN, fixedWidth : {FALSE}]

\* C23: a fillPath or strokePath over the current path emits the meshes the
\* same call emits over the path without its sub-paths of fewer than 3
\* (fill) or 2 (stroke) vertices.
C23_ShortSubPathsAreEmpty ==
  InCall =>
    /\ \A in \in ShortFillInputs :
         EmittedBy(ctx, ctxFillPathColor(ctx, in.color, in))
           = EmittedBy(ctx, ctxFillPathColor(WithoutShort(ctx, 3), in.color, in))
    /\ \A in \in ShortStrokeInputs :
         EmittedBy(ctx, ctxStrokePathColor(ctx, in.color, in.width, in))
           = EmittedBy(ctx, ctxStrokePathColor(WithoutShort(ctx, 2), in.color, in.width, in))

\* ------------------------------------- the run with unallocated handles
\* Handles a caller can hold: every slot of m_CmdLists and
\* VG_INVALID_HANDLE, which createCommandList returns when no slot is free.
HandleInputs == (0..(MaxCommandLists - 1)) \cup {UINT16_MAX}

DestroyCommandList ==
  /\ \E l \in ListSlots :
       CanRecord(l) /\ ctx' = destroyCommandList(ctx, l)
  /\ Spend("rec")
  /\ UNCHANGED <<submitted, inFrame>>

\* clSubmitCommandList() with any handle as the child.
ClSubmitHandle ==
  /\ \E l \in ListSlots :
       /\ CanRecord(l)
       /\ \E child \in HandleInputs : ctx' = clSubmitCommandList(ctx, l, child)
  /\ Spend("rec")
  /\ UNCHANGED <<submitted, inFrame>>

\* submitCommandList() with any handle.
SubmitHandle ==
  /\ InCall /\ Spend("submit")
  /\ \E h \in HandleInputs :
       ctx' = Record(ctx, ctxSubmitCommandList(ctx, h), "submitCommandList", "state")
  /\ UNCHANGED <<submitted, inFrame>>

NextHandles ==
  \/ CreateCommandList \/ DestroyCommandList
  \/ ClRect \/ ClFillPathColor \/ ClSubmitHandle
  \/ Begin \/ End
  \/ SubmitHandle

\* The run in which lists are destroyed and any handle is submitted.
SpecHandles == Init /\ [][NextHandles]_vars

\* The context without its history; each cached command without the
\* history of the command it was recorded for.
ProgramState(c) ==
  <<c.m_StateStack, c.m_StateStackTop, c.m_ClipState, c.m_RecordClipCommands,
    c.m_ForceNewDrawCommand, c.m_ForceNewClipCommand, c.m_DrawCommands, c.m_ClipCommands,
    c.m_VertexBuffers, c.m_IndexBuffers, c.m_ActiveIndexBufferID,
    c.m_Gradients, c.m_ImagePatterns, c.m_NextGradientID, c.m_NextImagePatternID,
    c.m_Path, c.m_PathTransformed, c.m_TransformedVertices,
    c.m_CmdListHandleAlloc, c.m_CmdListCacheStack, c.m_SubmitCmdListRecursionDepth,
    [l \in 1..MaxCommandLists |->
       <<c.m_CmdLists[l].m_Flags, c.m_CmdLists[l].m_NumGradients, c.m_CmdLists[l].m_NumImagePatterns,
         c.m_CmdLists[l].m_Cache.m_AvgScale,
         [k \in 1..Len(c.m_CmdLists[l].m_Cache.m_Commands) |->
            [c.m_CmdLists[l].m_Cache.m_Commands[k] EXCEPT !.h_Src = 0]]>>],
    c.h_UB>>

\* The commands of a list without the SubmitCommandList commands whose
\* child is not an allocated list.
RECURSIVE WithoutDeadSubmits(_, _)
WithoutDeadSubmits(c, cmds) ==
  IF cmds = <<>> THEN <<>>
  ELSE IF Head(cmds).type = "SubmitCommandList" /\ ~isCommandListHandleValid(c, Head(cmds).child)
    THEN WithoutDeadSubmits(c, Tail(cmds))
    ELSE <<Head(cmds)>> \o WithoutDeadSubmits(c, Tail(cmds))
HasDeadSubmit(c, l) ==
  WithoutDeadSubmits(c, At(c.m_CmdLists, l).m_Commands) # At(c.m_CmdLists, l).m_Commands
WithoutDeadChildren(c) ==
  [c EXCEPT !.m_CmdLists = [l \in 1..MaxCommandLists |->
                              [c.m_CmdLists[l] EXCEPT !.m_Commands = WithoutDeadSubmits(c, @)]]]

\* C24: submitting a handle that refers to no allocated list (never
\* created, destroyed, or VG_INVALID_HANDLE) changes nothing in the
\* context, and a list plays as it would without its SubmitCommandList
\* commands for such handles.
C24_UnallocatedSubmitSkipped ==
  InCall =>
    /\ \A h \in HandleInputs \ ctx.m_CmdListHandleAlloc :
         ProgramState(ctxSubmitCommandList(ctx, h)) = ProgramState(ctx)
    /\ \A l \in ctx.m_CmdListHandleAlloc :
         ProgramState(ctxSubmitCommandList(ctx, l))
           = ProgramState(ctxSubmitCommandList(WithoutDeadChildren(ctx), l))

\* ------------------------------------------- the run with scissor calls
MaxScissorCalls == 4
\* Canvas sizes given to begin(): an empty canvas and the model's canvas.
CanvasInputs == {0, CanvasWidth}

InitScissor ==
  /\ ctx = createContext
  /\ submitted = <<>>
  /\ inFrame = FALSE
  /\ budget = [frames |-> MaxFrames, draw |-> MaxStateCalls, clip |-> 0,
               state |-> MaxScissorCalls, path |-> MaxPathCalls, rec |-> 0, submit |-> 0]

\* begin() with a canvas size of the caller's choice.
BeginSized ==
  /\ ~inFrame /\ ~ctx.h_UB
  /\ Spend("frames")
  /\ \E w \in CanvasInputs :
       ctx' = BeginFrameOn(ctx, w, w)
  /\ inFrame' = TRUE
  /\ UNCHANGED submitted

\* intersectScissor(0, 0, canvasWidth, canvasHeight)
IntersectCanvas ==
  /\ InCall /\ Spend("state")
  /\ ctx' = Record(ctx, ctxIntersectScissor(ctx, 0, 0, ctx.m_CanvasWidth * FP,
                                            ctx.m_CanvasHeight * FP).c,
                   "intersectScissor", "state")
  /\ UNCHANGED <<submitted, inFrame>>

NextScissor ==
  \/ BeginSized \/ End
  \/ ResetScissor \/ IntersectCanvas \/ SetScissor
  \/ TransformScale \/ TransformTranslate
  \/ Rect \/ FillPathColor

SpecScissor == InitScissor /\ [][NextScissor]_vars

\* The step is intersectScissor(0, 0, canvasWidth, canvasHeight) made
\* right after resetScissor.
IsResetThenIntersectCanvas ==
  /\ InCall
  /\ ctx.h_Force.op = "resetScissor" /\ ctx.h_Force.call = ctx.h_Calls
  /\ ctx'.h_Calls = ctx.h_Calls + 1
  /\ ctx' = Record(ctx, ctxIntersectScissor(ctx, 0, 0, ctx.m_CanvasWidth * FP,
                                            ctx.m_CanvasHeight * FP).c,
                   "intersectScissor", "state")
IntersectCanvasKeepsReset ==
  /\ getState(ctx').m_ScissorRect = getState(ctx).m_ScissorRect
  /\ getState(ctx').m_ScissorRect = <<0, 0, ctx.m_CanvasWidth * FP, ctx.m_CanvasHeight * FP>>
  /\ ctxIntersectScissor(ctx, 0, 0, ctx.m_CanvasWidth * FP, ctx.m_CanvasHeight * FP).ret

\* The current transform takes the canvas rect to a rect that covers the
\* canvas, and the canvas is at least one unit wide and high.
CanvasRectCoversCanvas(c) ==
  LET m == getState(c).m_TransformMtx
      pos == transformPos2D(<<0, 0>>, m)
      size == transformVec2D(<<c.m_CanvasWidth * FP, c.m_CanvasHeight * FP>>, m)
  IN /\ c.m_CanvasWidth >= 1 /\ c.m_CanvasHeight >= 1
     /\ pos[1] <= 0 /\ pos[2] <= 0
     /\ pos[1] + size[1] >= c.m_CanvasWidth * FP
     /\ pos[2] + size[2] >= c.m_CanvasHeight * FP

InitRanges ==
  /\ ctx = createContext
  /\ submitted = <<>>
  /\ inFrame = FALSE
  /\ budget = [frames |-> MaxFrames, draw |-> MaxDrawCalls, clip |-> MaxStateCalls,
               state |-> 0, path |-> MaxPathSteps, rec |-> 0, submit |-> 0]

NextRanges ==
  \/ Begin \/ End
  \/ MoveTo \/ LineTo
  \/ FillPathColor \/ IndexedTriList
  \/ BeginClip

SpecRanges == InitRanges /\ [][NextRanges]_vars

\* The draw and clip commands of the frame, each with its stream.
FrameCommands ==
  {[stream |-> "draw", cmd |-> ctx.m_DrawCommands[k]] : k \in 1..Len(ctx.m_DrawCommands)}
    \cup {[stream |-> "clip", cmd |-> ctx.m_ClipCommands[k]] : k \in 1..Len(ctx.m_ClipCommands)}
\* The ranges [a, a + n) and [b, b + m) have no element in common.
RangesDisjoint(a, n, b, m) == n = 0 \/ m = 0 \/ a + n <= b \/ b + m <= a

\* C26: within a frame the vertex ranges of two distinct commands (draw or
\* clip) in the same vertex buffer are disjoint, so are the index ranges
\* of two distinct commands, and every mesh is written at the vertices and
\* indices that allocVertices and allocIndices reserved for it.
C26_CommandRangesDisjoint ==
  InCall =>
    /\ \A i \in 1..Len(ctx.h_Meshes) :
         /\ ctx.h_Meshes[i].vertexAt = ctx.h_Meshes[i].firstVertexID
         /\ ctx.h_Meshes[i].indexAt = ctx.h_Meshes[i].firstIndexID
    /\ \A p, q \in FrameCommands :
         p # q =>
           /\ p.cmd.m_VertexBufferID = q.cmd.m_VertexBufferID =>
                RangesDisjoint(p.cmd.m_FirstVertexID, p.cmd.m_NumVertices,
                               q.cmd.m_FirstVertexID, q.cmd.m_NumVertices)
           /\ RangesDisjoint(p.cmd.m_FirstIndexID, p.cmd.m_NumIndices,
                             q.cmd.m_FirstIndexID, q.cmd.m_NumIndices)

\* C27: the scissor stored in a clip command equals the state's scissor
\* (as uint16) at the call of every mesh merged into it, whatever
\* pushState, scissor and popState calls are made inside the clip block.
C27_ClipCommandScissor ==
  InCall =>
    \A i \in ClipMeshes :
      At(ctx.m_ClipCommands, ctx.h_Meshes[i].cmd).m_ScissorRect = ctx.h_Meshes[i].scissor

\* ----------------------------- the run with lists recorded across frames
InitCache ==
  /\ ctx = createContext
  /\ submitted = <<>>
  /\ inFrame = FALSE
  /\ budget = [frames |-> MaxPaintFrames, draw |-> 0, clip |-> 0,
               state |-> MaxStateCalls, path |-> 0,
               rec |-> MaxRecordCalls, submit |-> MaxSubmitCalls]

NextCache ==
  \/ CreateCommandList
  \/ ClRect \/ ClFillPathColor \/ ClSubmitCommandList
  \/ Begin \/ End
  \/ SubmitCommandList \/ TransformScale

\* The run in which a list is recorded, submitted, recorded further and
\* submitted again in the next frame.
SpecCache == InitCache /\ [][NextCache]_vars

\* The positions in list l of its fill and stroke commands.
StrokerPcs(l) ==
  {pc \in 1..Len(At(ctx.m_CmdLists, l).m_Commands) :
     IsStrokerCommand(At(ctx.m_CmdLists, l).m_Commands[pc].type)}
\* A submitCommandList(l) call made now would be served by clCacheRender.
WouldHit(l) ==
  /\ VG_CONFIG_ENABLE_SHAPE_CACHING
  /\ ~AtRecursionLimit(ctx)
  /\ At(ctx.m_CmdLists, l).m_Flags.cacheable
  /\ Len(At(ctx.m_CmdLists, l).m_Commands) > 0
  /\ At(ctx.m_CmdLists, l).m_Cache.m_AvgScale = getState(ctx).m_AvgScale
\* The cache of list l holds, for its k-th fill or stroke command, a k-th
\* cached command that was recorded for that command, with its meshes.
CacheMatches(l) ==
  LET cache == At(ctx.m_CmdLists, l).m_Cache
  IN \A pc \in StrokerPcs(l) :
       LET next == Cardinality({q \in StrokerPcs(l) : q < pc})
       IN /\ CachedCommandExists(cache, next)
          /\ At(cache.m_Commands, next).h_Src.list = l
          /\ At(cache.m_Commands, next).h_Src.pc = pc

\* C28: a cache-hit playback never reads past the cached commands its
\* cache holds, and each fill or stroke command consumes the cached
\* command recorded for it; also for a list recorded further without
\* resetCommandList and submitted again at the same scale, and for a list
\* that submits itself.
C28_CacheHitConsumption ==
  /\ InCall => \A l \in ctx.m_CmdListHandleAlloc : WouldHit(l) => CacheMatches(l)
  /\ \A s \in 1..Len(ctx.h_Submits) :
       (ctx.h_Submits[s].hit /\ ctx.h_Submits[s].done) => ctx.h_Submits[s].post # <<>>

\* --------------------- the run with nested lists that create gradients
InitLocal ==
  /\ ctx = createContext
  /\ submitted = <<>>
  /\ inFrame = FALSE
  /\ budget = [frames |-> MaxFrames, draw |-> 0, clip |-> 0,
               state |-> MaxStateCalls, path |-> 0,
               rec |-> MaxRecordCalls, submit |-> MaxSubmitCalls]

NextLocal ==
  \/ CreateCommandList
  \/ ClRect \/ ClSubmitCommandList
  \/ ClCreateLinearGradient \/ ClFillPathGradient
  \/ ClCreateImagePattern \/ ClFillPathImagePattern
  \/ Begin \/ End
  \/ SubmitCommandList \/ CreateLinearGradient

SpecLocal == InitLocal /\ [][NextLocal]_vars

\* The position in list l of its k-th create command of the kind (k from
\* 0), or 0 when the list holds no such command.
CreatePcs(l, type) ==
  {pc \in 1..Len(At(ctx.m_CmdLists, l).m_Commands) :
     At(ctx.m_CmdLists, l).m_Commands[pc].type = type}
KthCreatePc(l, type, k) ==
  LET at == {pc \in CreatePcs(l, type) : Cardinality({q \in CreatePcs(l, type) : q < pc}) = k}
  IN IF at = {} THEN 0 ELSE CHOOSE pc \in at : TRUE

\* C29: a mesh played back with the list-local gradient (image pattern)
\* handle k is drawn with the gradient (pattern) that the k-th create
\* command of its own list created in the same playback.
C29_LocalHandleOwnCreate ==
  \A i \in PaintedMeshes :
    LET e == ctx.h_Meshes[i]
        type == IF e.type = "ColorGradient" THEN "CreateLinearGradient" ELSE "CreateImagePattern"
    IN (/\ e.src.paint.flags = LocalHandle
        /\ ctx.h_Submits[e.src.submit].version = At(ctx.m_CmdLists, e.src.list).h_Version)
         => \A n \in 1..Len(ctx.h_Created) :
              (/\ ctx.h_Created[n].src.submit = e.src.submit
               /\ ctx.h_Created[n].src.list = e.src.list
               /\ ctx.h_Created[n].src.pc = KthCreatePc(e.src.list, type, e.src.paint.idx)
               /\ ctx.h_Created[n].handle # InvalidHandle)
                => ctx.h_Created[n].handle.idx = e.handle

\* ------------------------------------- the run with several clip blocks
MaxStencilCalls == 4

InitStencil ==
  /\ ctx = createContext
  /\ submitted = <<>>
  /\ inFrame = FALSE
  /\ budget = [frames |-> MaxFrames, draw |-> MaxDrawCalls, clip |-> MaxStencilCalls,
               state |-> 0, path |-> MaxPathCalls, rec |-> 0, submit |-> 0]

NextStencil ==
  \/ Begin \/ End
  \/ Rect \/ FillPathColor
  \/ BeginClip \/ EndClip

SpecStencil == InitStencil /\ [][NextStencil]_vars

\* C30: every draw command created while a clip region holding at least
\* one clip command was in effect is submitted by end with the stencil
\* test of the region's rule against the reference value with which the
\* clip commands of that region were submitted before it.
C30_ClippedDrawsTested ==
  ~inFrame =>
    \A p \in 1..Len(submitted) :
      submitted[p].kind = "draw" =>
        LET cs == At(ctx.m_DrawCommands, submitted[p].cmd).m_ClipState
        IN (cs.m_FirstCmdID # NoClipCmd /\ cs.m_NumCmds >= 1) =>
             /\ submitted[p].test = (IF cs.m_Rule = "In" THEN "EQUAL" ELSE "NOTEQUAL")
             /\ \A n \in cs.m_FirstCmdID..(cs.m_FirstCmdID + cs.m_NumCmds - 1) :
                  \E q \in 1..(p - 1) : submitted[q] = ClipPass(n, submitted[p].ref)

\* ------------------- the run of an immediate path among cached lists
InitShared ==
  /\ ctx = createContext
  /\ submitted = <<>>
  /\ inFrame = FALSE
  /\ budget = [frames |-> MaxFrames, draw |-> MaxStackDraws, clip |-> 0,
               state |-> 0, path |-> MaxPathSteps,
               rec |-> MaxSubmitCalls, submit |-> MaxSubmitCalls]

NextShared ==
  \/ CreateCommandList \/ ClRect \/ ClFillPathColor
  \/ Begin \/ End
  \/ BeginPath \/ MoveTo \/ LineTo \/ FillPathColor
  \/ SubmitCommandList

\* The run in which fills of an immediate-mode path alternate with
\* submissions of a recorded list.
SpecShared == InitShared /\ [][NextShared]_vars

\* C31: whenever pathTransformed is set, the buffer transformPath returns
\* starts with the path's vertices as the first fill or stroke since
\* beginPath transformed them, whatever was submitted since.
C31_TransformedPathKept ==
  (InCall /\ ctx.m_PathTransformed) =>
    /\ Len(ctx.m_TransformedVertices) >= Len(ctx.h_Transformed)
    /\ SubSeq(ctx.m_TransformedVertices, 1, Len(ctx.h_Transformed)) = ctx.h_Transformed

\* --------------------------- the run of index buffers across frames
\* indexedTriList() of a mesh without vertices and indices.
IndexedTriListEmpty ==
  /\ InCall /\ Spend("draw")
  /\ \E img \in ImageInputs :
       ctx' = Record(ctx, ctxIndexedTriList(ctx, <<>>, <<Red>>, <<>>, img), "indexedTriList", "other")
  /\ UNCHANGED <<submitted, inFrame>>

InitIndex ==
  /\ ctx = createContext
  /\ submitted = <<>>
  /\ inFrame = FALSE
  /\ budget = [frames |-> MaxPaintFrames, draw |-> MaxDrawCalls, clip |-> 0,
               state |-> 0, path |-> MaxPathCalls, rec |-> 0, submit |-> 0]

NextIndex ==
  \/ Begin \/ End \/ ReleaseIndexBuffer
  \/ Rect \/ FillPathColor
  \/ IndexedTriList \/ IndexedTriListEmpty

\* The run of frames whose index buffers the backend releases at any
\* time after the end that handed them over.
SpecIndex == InitIndex /\ [][NextIndex]_vars

\* C32: begin never makes an index buffer the active one while the backend
\* still holds it, that is after the end that handed it over and before
\* its release callback, whatever the frames drew.
C32_HeldIndexBufferNotReused ==
  [][(~inFrame /\ inFrame') => ctx'.m_ActiveIndexBufferID \notin ctx.bgfx_IndexRefs]_vars

\* ------------------ the run comparing cached and uncached playback
ClBeginPath ==
  /\ \E l \in ListSlots :
       CanRecord(l) /\ ctx' = clBeginPath(ctx, l)
  /\ Spend("rec")
  /\ UNCHANGED <<submitted, inFrame>>

InitReplay ==
  /\ ctx = createContext
  /\ submitted = <<>>
  /\ inFrame = FALSE
  /\ budget = [frames |-> MaxFrames, draw |-> 0, clip |-> MaxStateCalls,
               state |-> MaxStateCalls, path |-> 0,
               rec |-> MaxStackCalls, submit |-> MaxSubmitCalls]

NextReplay ==
  \/ CreateCommandList \/ ClBeginPath \/ ClRect \/ ClFillPathColor
  \/ Begin \/ End
  \/ SetGlobalAlpha \/ BeginClip
  \/ SubmitCommandList

\* The run in which a list recorded before the frame is submitted under
\* a global alpha and inside or outside a clip block.
SpecReplay == InitReplay /\ [][NextReplay]_vars

\* List l of context c as it would be without the Cacheable flag.
Uncached(c, l) == [c EXCEPT !.m_CmdLists[l + 1].m_Flags.cacheable = FALSE]
\* Type, handle and vertex and index counts of the commands of a stream.
CommandShapes(cmds) ==
  [i \in 1..Len(cmds) |->
     [type |-> cmds[i].m_Type, handle |-> cmds[i].m_HandleID,
      numVertices |-> cmds[i].m_NumVertices, numIndices |-> cmds[i].m_NumIndices]]
\* The per-vertex colours of the meshes a call from c0 to c1 emitted.
EmittedColors(c0, c1) ==
  [k \in 1..Len(EmittedBy(c0, c1)) |->
     [stream |-> EmittedBy(c0, c1)[k].stream, colors |-> EmittedBy(c0, c1)[k].colors]]
\* What a submission that took the context from c0 to c1 appended.
Appended(c0, c1) ==
  [draw |-> CommandShapes(c1.m_DrawCommands), clip |-> CommandShapes(c1.m_ClipCommands),
   colors |-> EmittedColors(c0, c1)]

\* C33: a submission served from the shape cache appends the same draw
\* and clip commands (type, handle, vertex and index counts, per-vertex
\* colours) as the submission of the same list without the Cacheable flag
\* would in the same context state.
C33_CacheHitEqualsPlayback ==
  InCall =>
    \A l \in ctx.m_CmdListHandleAlloc :
      WouldHit(l) =>
        Appended(ctx, ctxSubmitCommandList(ctx, l))
          = Appended(ctx, ctxSubmitCommandList(Uncached(ctx, l), l))

\* The draw meshes a list painted through one of its local handles.
LocalPaintMeshes ==
  {i \in DrawMeshes : /\ ctx.h_Meshes[i].src.paint # InvalidHandle
                      /\ ctx.h_Meshes[i].src.paint.flags = LocalHandle}

\* C34: whenever end can run, the handle of every ColorGradient draw
\* command a list painted through a local handle is below nextGradientID,
\* and that of every such ImagePattern draw command is below
\* nextImagePatternID, also after a list was played with fewer free
\* gradient or pattern slots than it creates or with a create command
\* that failed.
C34_PaintHandlesCreated ==
  InCall =>
    \A i \in LocalPaintMeshes :
      /\ ctx.h_Meshes[i].type = "ColorGradient"
           => CommandOfMesh(ctx.h_Meshes[i]).m_HandleID < ctx.m_NextGradientID
      /\ ctx.h_Meshes[i].type = "ImagePattern"
           => CommandOfMesh(ctx.h_Meshes[i]).m_HandleID < ctx.m_NextImagePatternID

\* C35: every frame starts with clip recording idle: right after begin the
\* recording flag is false, and a fill issued before the frame's first
\* beginClip goes to the draw stream, also when the previous frame reached
\* end inside a clip block.
C35_FrameStartsIdle ==
  /\ (inFrame /\ ctx.h_Calls = 0) => ~ctx.m_RecordClipCommands
  /\ InCall => \A i \in 1..Len(ctx.h_Meshes) :
                 ctx.h_Meshes[i].block = 0 => ctx.h_Meshes[i].stream = "draw"

\* ------------------------------- the run of lists reset and re-recorded
\* The scales of transformScale: to nothing and to twice the size.
ScaleInputs == {0, 2}

TransformScaleBy ==
  /\ InCall /\ Spend("state")
  /\ \E s \in ScaleInputs :
       ctx' = Record(ctx, ctxTransformScale(ctx, s, s), "transformScale", "state")
  /\ UNCHANGED <<submitted, inFrame>>

InitReset ==
  /\ ctx = createContext
  /\ submitted = <<>>
  /\ inFrame = FALSE
  /\ budget = [frames |-> MaxPaintFrames, draw |-> 0, clip |-> 0,
               state |-> MaxStateCalls, path |-> 0,
               rec |-> MaxRecordCalls, submit |-> MaxSubmitCalls]

NextReset ==
  \/ CreateCommandList \/ ResetCommandList
  \/ ClRect \/ ClFillPathColor
  \/ Begin \/ End
  \/ SubmitCommandList \/ TransformScaleBy

\* The run in which a list is recorded, submitted, reset between two
\* frames, recorded again and submitted at another scale.
SpecReset == InitReset /\ [][NextReset]_vars

\* C36: a list that was reset and not recorded since holds no commands,
\* has both local counters at 0 and an empty cache; once commands are
\* recorded again, its next submission is not served from the cache,
\* whatever the state's scale.
C36_ResetListRerecorded ==
  \A l \in ctx.m_CmdListHandleAlloc :
    LET cl == At(ctx.m_CmdLists, l)
    IN cl.h_Fresh =>
         /\ cl.m_NumGradients = 0 /\ cl.m_NumImagePatterns = 0
         /\ cl.m_Cache = EmptyCache
         /\ (InCall /\ Len(cl.m_Commands) > 0) => ~WouldHit(l)

\* ---------------------------- the run with lists that submit each other
\* A context configured with one more command list than the other runs.
InitCycle ==
  /\ ctx = [createContext EXCEPT
              !.m_CmdLists = [i \in 1..(MaxCommandLists + 1) |-> ZeroCommandList]]
  /\ submitted = <<>>
  /\ inFrame = FALSE
  /\ budget = [frames |-> MaxFrames, draw |-> 0, clip |-> 0,
               state |-> 0, path |-> 0,
               rec |-> MaxStackCalls, submit |-> MaxSubmitCalls]

NextCycle ==
  \/ CreateCommandList
  \/ ClRect \/ ClFillPathColor \/ ClSubmitCommandList
  \/ Begin \/ End
  \/ SubmitCommandList

\* The run in which lists are recorded that submit themselves and each
\* other, and are submitted.
SpecCycle == InitCycle /\ [][NextCycle]_vars

\* The playbacks of the frame entered at recursion depth d.
SubmitsAtDepth(d) == {s \in 1..Len(ctx.h_Submits) : ctx.h_Submits[s].depth = d}
\* The largest number of SubmitCommandList commands a list holds.
MaxNestedSubmits ==
  LET counts == {CountCommands(l, "SubmitCommandList") : l \in ctx.m_CmdListHandleAlloc}
  IN IF counts = {} THEN 0 ELSE CHOOSE n \in counts : \A m \in counts : m <= n

\* C37: every submitCommandList call returns, also for lists that submit
\* themselves or each other: all its playbacks have ended and the depth
\* counter is back at 0, no playback is nested at depth maxCommandListDepth
\* or deeper, every playback has walked each command of its list once, and
\* a playback starts at most one playback per SubmitCommandList command.
C37_SubmitTerminates ==
  ~ctx.h_UB =>
    /\ ctx.m_SubmitCmdListRecursionDepth = 0
    /\ \A s \in 1..Len(ctx.h_Submits) :
         /\ ctx.h_Submits[s].done
         /\ ctx.h_Submits[s].depth < MaxCommandListDepth
         /\ ctx.h_Submits[s].version = At(ctx.m_CmdLists, ctx.h_Submits[s].list).h_Version
              => ctx.h_Submits[s].played = Len(At(ctx.m_CmdLists, ctx.h_Submits[s].list).m_Commands)
    /\ Cardinality(SubmitsAtDepth(0)) <= MaxSubmitCalls - budget.submit
    /\ (inFrame \/ budget.rec = 0) =>
         \A d \in 0..(MaxCommandListDepth - 1) :
           Cardinality(SubmitsAtDepth(d + 1)) <= MaxNestedSubmits * Cardinality(SubmitsAtDepth(d))

\* C37 witness: two lists that submit each other were played, the second
\* inside the first, and the first list's submission from inside the second
\* was turned down at the depth limit.
C37_Witness ==
  /\ ~ctx.h_UB /\ inFrame
  /\ \E a, b \in ctx.m_CmdListHandleAlloc :
       /\ a # b
       /\ \E i \in 1..Len(At(ctx.m_CmdLists, a).m_Commands) :
            /\ At(ctx.m_CmdLists, a).m_Commands[i].type = "SubmitCommandList"
            /\ At(ctx.m_CmdLists, a).m_Commands[i].child = b
       /\ \E i \in 1..Len(At(ctx.m_CmdLists, b).m_Commands) :
            /\ At(ctx.m_CmdLists, b).m_Commands[i].type = "SubmitCommandList"
            /\ At(ctx.m_CmdLists, b).m_Commands[i].child = a
       /\ \E s, t \in DoneSubmits :
            /\ ctx.h_Submits[s].list = a /\ ctx.h_Submits[s].depth = 0
            /\ ctx.h_Submits[t].list = b /\ ctx.h_Submits[t].depth = MaxCommandListDepth - 1
  /\ \E n \in 1..Len(ctx.h_Nested) :
       ctx.h_Nested[n].depth = MaxCommandListDepth /\ ctx.h_Nested[n].unchanged

\* ------------------------------------ playback against the direct calls
\* The handle a direct caller holds for a recorded paint handle: a local
\* handle k stands for what the list's k-th create call returned, any other
\* handle for itself.
CallerHandle(h, created) ==
  IF isLocal(h)
    THEN IF h.idx < Len(created) THEN created[h.idx + 1] ELSE InvalidHandle
    ELSE [idx |-> h.idx, flags |-> 0]

\* The recorded commands from pc on issued as calls on the context, in
\* recording order with their recorded arguments; gradients and patterns
\* are the handles the create calls issued so far returned.
RECURSIVE DirectCalls(_, _, _, _, _)
DirectCalls(c, cmds, pc, gradients, patterns) ==
  IF pc > Len(cmds) \/ c.h_UB
    THEN c
    ELSE LET cmd == cmds[pc]
             Then(c1) == DirectCalls(c1, cmds, pc + 1, gradients, patterns)
         IN CASE cmd.type = "BeginPath" -> Then(ctxBeginPath(c))
              [] cmd.type = "Rect" -> Then(ctxRect(c, cmd.x, cmd.y, cmd.w, cmd.h))
              [] cmd.type = "FillPathColor" -> Then(ctxFillPathColor(c, cmd.color, cmd.flags))
              [] cmd.type = "FillPathGradient" ->
                   Then(ctxFillPathGradient(c, CallerHandle(cmd.handle, gradients), cmd.flags))
              [] cmd.type = "FillPathImagePattern" ->
                   Then(ctxFillPathImagePattern(c, CallerHandle(cmd.handle, patterns), cmd.color, cmd.flags))
              [] cmd.type = "StrokePathColor" ->
                   Then(ctxStrokePathColor(c, cmd.color, cmd.width, cmd.flags))
              [] cmd.type = "IndexedTriList" ->
                   Then(ctxIndexedTriList(c, cmd.pos, cmd.colors, cmd.indices, cmd.image))
              [] cmd.type = "CreateLinearGradient" ->
                   LET r == ctxCreateLinearGradient(c, cmd.params)
                   IN DirectCalls(r.c, cmds, pc + 1, Append(gradients, r.handle), patterns)
              [] cmd.type = "CreateImagePattern" ->
                   LET r == ctxCreateImagePattern(c, cmd.params, cmd.image)
                   IN DirectCalls(r.c, cmds, pc + 1, gradients, Append(patterns, r.handle))
              [] cmd.type = "SetScissor" -> Then(ctxSetScissor(c, cmd.x, cmd.y, cmd.w, cmd.h))
              [] cmd.type = "ResetScissor" -> Then(ctxResetScissor(c))
              [] cmd.type = "IntersectScissor" ->
                   Then(ctxIntersectScissor(c, cmd.x, cmd.y, cmd.w, cmd.h).c)
              [] cmd.type = "PushState" -> Then(ctxPushState(c))
              [] cmd.type = "PopState" -> Then(ctxPopState(c))
              [] cmd.type = "TransformScale" -> Then(ctxTransformScale(c, cmd.x, cmd.y))
              [] cmd.type = "BeginClip" -> Then(ctxBeginClip(c, cmd.rule))
              [] cmd.type = "EndClip" -> Then(ctxEndClip(c))
              [] cmd.type = "ResetClip" -> Then(ctxResetClip(c))
              [] cmd.type = "SubmitCommandList" ->
                   Then(IF isCommandListHandleValid(c, cmd.child)
                          THEN ctxSubmitCommandList(c, cmd.child) ELSE c)
              [] OTHER -> Then(c)

\* The calls of list l issued on the context, inside the bracket that
\* preserves the state when configured.
DirectSubmit(c, l) ==
  LET cmds == At(c.m_CmdLists, l).m_Commands
  IN IF Len(cmds) = 0
       THEN c
       ELSE PreserveEnd(DirectCalls(PreserveBegin(c), cmds, 1, <<>>, <<>>))

\* C38: submitting a list recorded without the Cacheable and
\* AllowCommandCulling flags leaves the draw commands, clip commands,
\* gradients, patterns and state, and emits the meshes, that issuing its
\* recorded calls directly on the context in recording order does.
C38_PlaybackEqualsDirectCalls ==
  InCall =>
    \A l \in ctx.m_CmdListHandleAlloc :
      At(ctx.m_CmdLists, l).m_Flags = NoFlags =>
        LET played == ctxSubmitCommandList(ctx, l)
            direct == DirectSubmit(ctx, l)
        IN /\ ProgramState(played) = ProgramState(direct)
           /\ EmittedBy(ctx, played) = EmittedBy(ctx, direct)

\* ------------------------------- one transformation per path (C39)
\* The context with the head of the transformed-vertex buffer as the call
\* that set pathTransformed wrote it.
WithFirstTransform(c) ==
  [c EXCEPT !.m_TransformedVertices =
              c.h_Transformed \o SubSeq(@, Len(c.h_Transformed) + 1, Len(@))]

\* A fill or stroke that took the context from c to p, and to q from
\* WithFirstTransform(c).  With the flag set it leaves the buffer alone and
\* tessellates what the first call wrote; with the flag clear, unless it
\* returned early on a fully transparent colour, it sets the flag and
\* writes the path's vertices under the state transform of c.
TransformsOnce(c, p, q) ==
  IF c.m_PathTransformed
    THEN /\ p.m_PathTransformed
         /\ p.m_TransformedVertices = c.m_TransformedVertices
         /\ EmittedBy(c, p) = EmittedBy(c, q)
    ELSE p # c =>
           LET first == batchTransformPositions(c.m_Path.m_Vertices, getState(c).m_TransformMtx)
           IN /\ p.m_PathTransformed
              /\ Len(p.m_TransformedVertices) >= Len(first)
              /\ SubSeq(p.m_TransformedVertices, 1, Len(first)) = first

\* C39: between two beginPath calls the path is transformed once: the first
\* fill or stroke writes the path's vertices under the state transform of
\* that moment and sets pathTransformed, every later fill or stroke
\* tessellates those vertices and leaves them alone, also after the state
\* transform was scaled, and beginPath clears the flag.
C39_PathTransformedOnce ==
  InCall =>
    /\ ~ctxBeginPath(ctx).m_PathTransformed
    /\ \A s \in ScaleInputs \cup {1} :
         LET c1 == ctxTransformScale(ctx, s, s)
             c0 == WithFirstTransform(c1)
         IN /\ \A in \in ShortFillInputs :
                 TransformsOnce(c1, ctxFillPathColor(c1, in.color, in),
                                ctxFillPathColor(c0, in.color, in))
            /\ \A in \in ShortStrokeInputs :
                 TransformsOnce(c1, ctxStrokePathColor(c1, in.color, in.width, in),
                                ctxStrokePathColor(c0, in.color, in.width, in))

====
